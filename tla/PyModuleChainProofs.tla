------------------------- MODULE PyModuleChainProofs -------------------------
(***************************************************************************)
(* Proofs about PyModuleChain for every value of its constants.            *)
(***************************************************************************)
EXTENDS PyModuleChain, TLAPS

USE ConstAssumption

(* A pip install only adds to a site.                                      *)
LEMMA PipGrows ==
    ASSUME NEW site, NEW m \in Modules, NEW x \in PipFailed(site, m) \cup {PipOk(site, m)}
    PROVE  /\ site \subseteq x
           /\ x \subseteq site \cup {m} \cup Deps[m]
BY DEF PipFailed, PipOk

(* Every step keeps every variable in its type.                           *)
LEMMA TypeStep == TypeOK /\ [Next]_vars => TypeOK'
  <2> SUFFICES ASSUME TypeOK, [Next]_vars PROVE TypeOK'
    OBVIOUS
  <2>1. CASE AptBatch
    BY <2>1 DEF AptBatch, TypeOK, PC
  <2>2. ASSUME NEW m \in Modules, AptOne(m) PROVE TypeOK'
    BY <2>2 DEF AptOne, TypeOK, PC
  <2>3. CASE Check
    BY <2>3 DEF Check, TypeOK, PC
  <2>4. ASSUME NEW m \in Modules, S1(m) PROVE TypeOK'
    <3>1. userSite' \in PipFailed(userSite, m) \cup {PipOk(userSite, m)}
      BY <2>4 DEF S1
    <3>2. userSite' \subseteq Modules
      BY <3>1, PipGrows DEF TypeOK
    <3>3. QED
      BY <2>4, <3>2 DEF S1, TypeOK, PC
  <2>5. CASE S2
    BY <2>5 DEF S2, TypeOK, PC
  <2>6. ASSUME NEW m \in Modules, S2Pipx(m) PROVE TypeOK'
    BY <2>6 DEF S2Pipx, TypeOK, PC, Earliest
  <2>7. CASE S3Skip
    BY <2>7 DEF S3Skip, TypeOK, PC
  <2>8. CASE S3Venv
    BY <2>8 DEF S3Venv, TypeOK, PC
  <2>9. ASSUME NEW m \in Modules, S3Pip(m) PROVE TypeOK'
    <3>1. venvSite' \in PipFailed(venvSite, m) \cup {PipOk(venvSite, m)}
      BY <2>9 DEF S3Pip
    <3>2. venvSite' \subseteq Modules
      BY <3>1, PipGrows DEF TypeOK
    <3>3. QED
      BY <2>9, <3>2 DEF S3Pip, TypeOK, PC
  <2>10. ASSUME NEW m \in Modules, S3Copy(m) PROVE TypeOK'
    BY <2>10 DEF S3Copy, TypeOK, PC
  <2>11. CASE S4
    BY <2>11 DEF S4, TypeOK, PC
  <2>12. ASSUME NEW m \in Modules, S4Pip(m) PROVE TypeOK'
    <3>1. userSite' \in PipFailed(userSite, m) \cup {PipOk(userSite, m)}
      BY <2>12 DEF S4Pip
    <3>2. userSite' \subseteq Modules
      BY <3>1, PipGrows DEF TypeOK
    <3>3. QED
      BY <2>12, <3>2 DEF S4Pip, TypeOK, PC
  <2>13. CASE Verify
    BY <2>13 DEF Verify, TypeOK, PC
  <2>14. CASE Terminated
    BY <2>14 DEF Terminated, vars, TypeOK
  <2>15. CASE UNCHANGED vars
    BY <2>15 DEF vars, TypeOK
  <2>16. QED
    BY <2>1, <2>2, <2>3, <2>4, <2>5, <2>6, <2>7, <2>8, <2>9, <2>10,
       <2>11, <2>12, <2>13, <2>14, <2>15 DEF Next

(* The type invariant: every variable keeps its type in every behaviour.   *)
THEOREM TypeCorrect == Spec => []TypeOK
<1>1. Init => TypeOK
  BY DEF Init, TypeOK, PC
<1>2. QED
  BY <1>1, TypeStep, PTL DEF Spec

(* The installer's claims that all modules are available are true: at both *)
(* early returns of the chain every requested distribution is installed.   *)
THEOREM ClaimsTrue == Spec => []ClaimImpliesInstalled
<1>1. Init => ClaimInv
  BY DEF Init, ClaimInv, TypeOK, PC
<1>2. ClaimInv /\ [Next]_vars => ClaimInv'
  <2> SUFFICES ASSUME ClaimInv, [Next]_vars PROVE ClaimInv'
    OBVIOUS
  <2>0. TypeOK'
    BY TypeStep DEF ClaimInv
  <2> USE <2>0 DEF ClaimInv
  <2>1. CASE AptBatch
    BY <2>1 DEF AptBatch
  <2>2. ASSUME NEW m \in Modules, AptOne(m) PROVE ClaimInv'
    BY <2>2 DEF AptOne
  <2>3. CASE Check
    <3>1. CASE missing' = {}
      BY <2>3, <3>1 DEF Check, Importable, Installed
    <3>2. CASE missing' # {}
      BY <2>3, <3>2 DEF Check, Importable, Installed
    <3>3. QED
      BY <3>1, <3>2
  <2>4. ASSUME NEW m \in Modules, S1(m) PROVE ClaimInv'
    <3>1. userSite \subseteq userSite' /\ UNCHANGED sysSite
      BY <2>4, PipGrows DEF S1
    <3>2. \A n \in Modules : Installed(n) => Installed(n)'
      BY <3>1 DEF Installed
    <3>3. m \in failed' \/ Installed(m)'
      BY <2>4 DEF S1, PipOk, Installed
    <3>4. pc = "s1" /\ todo' = todo \ {m} /\ failed \subseteq failed'
      BY <2>4 DEF S1
    <3>5. (pc' = "s1" => \A n \in Modules \ (todo' \cup failed') : Installed(n)')
      BY <3>2, <3>3, <3>4
    <3>6. (pc' = "ret_s1" => \A n \in Modules : Installed(n)')
      BY <2>4, <3>2, <3>3, <3>4 DEF S1
    <3>7. pc' \in {"s1", "ret_s1", "s2"}
      BY <2>4 DEF S1
    <3>8. QED
      BY <3>5, <3>6, <3>7
  <2>5. CASE S2
    BY <2>5 DEF S2
  <2>6. ASSUME NEW m \in Modules, S2Pipx(m) PROVE ClaimInv'
    BY <2>6 DEF S2Pipx
  <2>7. CASE S3Skip
    BY <2>7 DEF S3Skip
  <2>8. CASE S3Venv
    BY <2>8 DEF S3Venv
  <2>9. ASSUME NEW m \in Modules, S3Pip(m) PROVE ClaimInv'
    BY <2>9 DEF S3Pip
  <2>10. ASSUME NEW m \in Modules, S3Copy(m) PROVE ClaimInv'
    BY <2>10 DEF S3Copy
  <2>11. CASE S4
    BY <2>11 DEF S4
  <2>12. ASSUME NEW m \in Modules, S4Pip(m) PROVE ClaimInv'
    BY <2>12 DEF S4Pip
  <2>13. CASE Verify
    BY <2>13 DEF Verify
  <2>14. CASE Terminated
    BY <2>14 DEF Terminated, vars, Importable, Installed
  <2>15. CASE UNCHANGED vars
    BY <2>15 DEF vars, Importable, Installed
  <2>16. QED
    BY <2>1, <2>2, <2>3, <2>4, <2>5, <2>6, <2>7, <2>8, <2>9, <2>10,
       <2>11, <2>12, <2>13, <2>14, <2>15 DEF Next
<1>3. ClaimInv => ClaimImpliesInstalled
  BY DEF ClaimInv, ClaimImpliesInstalled, Importable
<1>4. QED
  BY <1>1, <1>2, <1>3, PTL DEF Spec

(* NestInv is inductive.                                                  *)
LEMMA NestStep == NestInv /\ [Next]_vars => NestInv'
<1> SUFFICES ASSUME NestInv, [Next]_vars PROVE NestInv'
  OBVIOUS
<1>0. TypeOK'
  BY TypeStep DEF NestInv
<1> USE <1>0 DEF NestInv
<1>1. CASE S2
  BY <1>1 DEF S2
<1>2. ASSUME NEW m \in Modules, S2Pipx(m) PROVE NestInv'
  BY <1>2 DEF S2Pipx, Earliest
<1>3. CASE Terminated \/ UNCHANGED vars
  BY <1>3 DEF Terminated, vars
<1>4. CASE ~S2 /\ ~(\E m \in Modules : S2Pipx(m)) /\ ~(Terminated \/ UNCHANGED vars)
  <2>1. pc' # "s2pipx"
    BY <1>4 DEF Next, AptBatch, AptOne, Check, S1, S3Skip, S3Venv, S3Pip,
                S3Copy, S4, S4Pip, Verify
  <2>2. QED
    BY <2>1
<1>5. QED
  BY <1>1, <1>2, <1>3, <1>4

(* After strategy 1, no step of the chain adds to its working set          *)
(* strategy1_failed: each strategy gets what the one before it left.       *)
THEOREM WorkingSetShrinks == Spec => WorkingSetNested
<1>1. Init => NestInv
  BY DEF Init, NestInv, TypeOK, PC
<1>2. NestInv /\ [Next]_vars =>
        [pc \notin {"apt_batch", "apt_one", "check", "s1"} =>
           failed' \subseteq failed]_vars
  <2> SUFFICES ASSUME NestInv, [Next]_vars,
                      pc \notin {"apt_batch", "apt_one", "check", "s1"}
               PROVE  failed' \subseteq failed
    OBVIOUS
  <2>1. ASSUME NEW m \in Modules, S2Pipx(m) PROVE failed' \subseteq failed
    BY <2>1 DEF S2Pipx, NestInv, Earliest
  <2>2. CASE ~\E m \in Modules : S2Pipx(m)
    BY <2>2 DEF Next, AptBatch, AptOne, Check, S1, S2, S3Skip, S3Venv,
                S3Pip, S3Copy, S4, S4Pip, Verify, Terminated, vars
  <2>3. QED
    BY <2>1, <2>2
<1>3. QED
  BY <1>1, <1>2, NestStep, PTL DEF Spec, WorkingSetNested

(* The invariant behind ReportComplete.  From the import check on, every   *)
(* module outside missing_modules imports, and a dependency of one that    *)
(* is itself in missing_modules is installed and only fails by its name    *)
(* (so the venv glob never matches it); the loops and working sets of the  *)
(* strategies stay within missing_modules; the verification's report is   *)
(* the re-check of missing_modules.  Before the check nothing has failed.  *)
AfterCheck == pc \notin {"apt_batch", "apt_one", "check"}

RCInv ==
    /\ TypeOK
    /\ ~AfterCheck =>
         /\ failed = {} /\ failed2 = {}
         /\ pc \in {"apt_batch", "check"} => todo = {}
    /\ AfterCheck =>
         /\ \A k \in Modules \ missing : Importable(k)
         /\ \A k \in Modules \ missing : Deps[k] \cap missing \subseteq BadImport
         /\ todo \cup failed \cup failed2 \subseteq missing
    /\ pc = "done" => finalMissing = {m \in missing : ~Importable(m)}

(* A step that only adds to the two sites keeps every importable module    *)
(* importable.                                                             *)
LEMMA SitesGrow ==
    ASSUME NEW k \in Modules, Importable(k),
           sysSite \subseteq sysSite', userSite \subseteq userSite'
    PROVE  Importable(k)'
BY DEF Importable, Installed

LEMMA RCStep == RCInv /\ [Next]_vars => RCInv'
<1> SUFFICES ASSUME RCInv, [Next]_vars PROVE RCInv'
  OBVIOUS
<1>0. TypeOK'
  BY TypeStep DEF RCInv
<1>1. CASE AptBatch
  BY <1>1, <1>0 DEF AptBatch, RCInv, AfterCheck
<1>2. ASSUME NEW m \in Modules, AptOne(m) PROVE RCInv'
  BY <1>2, <1>0 DEF AptOne, RCInv, AfterCheck
<1>3. CASE Check
  <2>1. missing' = {m \in Modules : ~Importable(m)} /\ AfterCheck'
        /\ UNCHANGED <<sysSite, userSite, failed, failed2>>
    BY <1>3 DEF Check, AfterCheck
  <2>2. \A k \in Modules \ missing' : Importable(k)'
    BY <2>1 DEF Importable, Installed
  <2>3. ASSUME NEW k \in Modules \ missing', NEW d \in Deps[k] \cap missing'
        PROVE  d \in BadImport
    <3>1. Installed(k) /\ d \in Modules
      BY <2>1, <2>3 DEF Importable
    <3>2. Deps[d] \subseteq Deps[k]
      BY <3>1, ConstAssumption
    <3>3. Installed(d)
      BY <3>1, <3>2, <2>3 DEF Installed
    <3>4. QED
      BY <3>3, <2>1, <2>3 DEF Importable
  <2>4. todo' \cup failed' \cup failed2' \subseteq missing'
    BY <1>3, <2>1 DEF Check, RCInv, AfterCheck
  <2>5. pc' # "done"
    BY <1>3 DEF Check
  <2>6. QED
    BY <1>0, <2>1, <2>2, <2>3, <2>4, <2>5 DEF RCInv
<1>4. ASSUME NEW m \in Modules, S1(m) PROVE RCInv'
  <2>1. sysSite \subseteq sysSite' /\ userSite \subseteq userSite'
    BY <1>4, PipGrows DEF S1
  <2>2. \A k \in Modules \ missing' : Importable(k)'
    BY <1>4, <2>1, SitesGrow DEF S1, RCInv, AfterCheck
  <2>3. QED
    BY <1>0, <1>4, <2>2 DEF S1, RCInv, AfterCheck, Earliest
<1>5. CASE S2
  BY <1>0, <1>5 DEF S2, RCInv, AfterCheck, Importable, Installed
<1>6. ASSUME NEW m \in Modules, S2Pipx(m) PROVE RCInv'
  BY <1>0, <1>6 DEF S2Pipx, RCInv, AfterCheck, Earliest, Importable,
                    Installed
<1>7. CASE S3Skip \/ S3Venv
  BY <1>0, <1>7 DEF S3Skip, S3Venv, RCInv, AfterCheck, Importable, Installed
<1>8. ASSUME NEW m \in Modules, S3Pip(m) PROVE RCInv'
  BY <1>0, <1>8 DEF S3Pip, RCInv, AfterCheck, Earliest, Importable, Installed
<1>9. ASSUME NEW m \in Modules, S3Copy(m) PROVE RCInv'
  <2>1. m \in missing /\ AfterCheck /\ AfterCheck'
    BY <1>9 DEF S3Copy, Earliest, RCInv, AfterCheck
  <2>2. \/ userSite \subseteq userSite'
        \/ m \in VenvGlob /\ userSite' = userSite \ {m}
    BY <1>9 DEF S3Copy
  <2>3. ASSUME NEW k \in Modules \ missing PROVE Importable(k)'
    <3>1. Importable(k)
      BY <2>1 DEF RCInv
    <3>2. CASE userSite \subseteq userSite'
      BY <1>9, <3>1, <3>2, SitesGrow DEF S3Copy
    <3>3. CASE m \in VenvGlob /\ userSite' = userSite \ {m}
      <4>1. m \notin BadImport
        BY <3>3, ConstAssumption
      <4>2. m \notin Deps[k] /\ m # k
        BY <2>1, <4>1 DEF RCInv
      <4>3. QED
        BY <1>9, <3>1, <3>3, <4>2 DEF S3Copy, Importable, Installed
    <3>4. QED
      BY <2>2, <3>2, <3>3
  <2>4. QED
    BY <1>0, <1>9, <2>1, <2>3 DEF S3Copy, RCInv, AfterCheck, Earliest
<1>10. CASE S4
  BY <1>0, <1>10 DEF S4, RCInv, AfterCheck, Importable, Installed
<1>11. ASSUME NEW m \in Modules, S4Pip(m) PROVE RCInv'
  <2>1. sysSite \subseteq sysSite' /\ userSite \subseteq userSite'
    BY <1>11, PipGrows DEF S4Pip
  <2>2. \A k \in Modules \ missing' : Importable(k)'
    BY <1>11, <2>1, SitesGrow DEF S4Pip, RCInv, AfterCheck
  <2>3. QED
    BY <1>0, <1>11, <2>2 DEF S4Pip, RCInv, AfterCheck, Earliest
<1>12. CASE Verify
  BY <1>0, <1>12 DEF Verify, RCInv, AfterCheck, Importable, Installed
<1>13. CASE Terminated \/ UNCHANGED vars
  BY <1>0, <1>13 DEF Terminated, vars, RCInv, AfterCheck, Importable,
                     Installed
<1>14. QED
  BY <1>1, <1>2, <1>3, <1>4, <1>5, <1>6, <1>7, <1>8, <1>9, <1>10, <1>11,
     <1>12, <1>13 DEF Next

(* The final verification misses no requested module that fails to        *)
(* import, although it re-imports only missing_modules: whatever imported  *)
(* after apt still imports when the installer returns, the venv copy's     *)
(* rmtree included.                                                        *)
THEOREM ReportCorrect == Spec => []ReportComplete
<1>1. Init => RCInv
  BY DEF Init, RCInv, TypeOK, PC, AfterCheck
<1>2. RCInv => ReportComplete
  BY DEF RCInv, ReportComplete, AfterCheck
<1>3. QED
  BY <1>1, <1>2, RCStep, PTL DEF Spec

=============================================================================
