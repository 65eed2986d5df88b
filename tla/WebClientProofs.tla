--------------------------- MODULE WebClientProofs --------------------------
(***************************************************************************)
(* What is on screen (WebClient), proved for every set of passwords, every *)
(* score of them, and whatever the server answers.                         *)
(*                                                                         *)
(* The argument is about the request under way: while there is one, the    *)
(* field is read-only and still holds what was sent, so an answer is about *)
(* the password beside it however long it took.                            *)
(***************************************************************************)
EXTENDS WebClient, TLAPS

\* The field is closed exactly while a request is under way, and holds what was sent.
FieldHeld ==
    /\ busy <=> request # Empty
    /\ busy => field = request

Inv == TypeOK /\ FieldHeld /\ VerdictIsAboutField

LEMMA ShippedType == Shipped \in [enabled : BOOLEAN, min_score : 0..4]
  <1>1. 3 \in 0..4 OBVIOUS
  <1>2. TRUE \in BOOLEAN OBVIOUS
  <1> QED BY <1>1, <1>2, Zenon DEF Shipped

LEMMA InitInv == Init => Inv
  <1> SUFFICES ASSUME Init PROVE Inv OBVIOUS
  <1>1. TypeOK BY ShippedType DEF Init, TypeOK, Field, Hidden
  <1>2. FieldHeld /\ VerdictIsAboutField
    BY DEF Init, FieldHeld, VerdictIsAboutField, Hidden
  <1> QED BY <1>1, <1>2 DEF Inv

LEMMA StepType == TypeOK /\ [Next]_vars => TypeOK'
  <1> SUFFICES ASSUME TypeOK, [Next]_vars PROVE TypeOK' OBVIOUS
  <1> USE DEF TypeOK, Field, ServerVerdicts
  <1>1. CASE Configure BY <1>1, SettingsAssumption DEF Configure
  <1>2. CASE Type BY <1>2 DEF Type
  <1>3. CASE Score BY <1>3 DEF Score, Hidden
  <1>4. CASE GateWeak BY <1>4 DEF GateWeak, Show, MaySubmit
  <1>5. CASE Submit BY <1>5 DEF Submit, Busy
  <1>6. CASE Answered
    <2>1. PICK body \in Body :
             Show(VerdictShown(body), request, IF body.checks THEN request ELSE Empty)
      BY <1>6 DEF Answered
    <2>2. VerdictShown(body) \in ServerVerdicts BY DEF VerdictShown, Body
    <2> QED BY <1>6, <2>1, <2>2 DEF Answered, Show
  <1>7. CASE Failed BY <1>7 DEF Failed, Show, NotBusy
  <1>8. CASE Reload BY <1>8, ShippedType DEF Reload, Hidden
  <1>9. CASE UNCHANGED vars BY <1>9 DEF vars
  <1> QED BY <1>1, <1>2, <1>3, <1>4, <1>5, <1>6, <1>7, <1>8, <1>9 DEF Next

LEMMA StepField == TypeOK /\ FieldHeld /\ [Next]_vars => FieldHeld'
  <1> SUFFICES ASSUME TypeOK, FieldHeld, [Next]_vars PROVE FieldHeld' OBVIOUS
  <1> USE DEF FieldHeld, TypeOK
  <1>1. CASE Configure BY <1>1 DEF Configure
  <1>2. CASE Type BY <1>2 DEF Type
  <1>3. CASE Score BY <1>3 DEF Score
  <1>4. CASE GateWeak BY <1>4 DEF GateWeak
  <1>5. CASE Submit BY <1>5 DEF Submit, Busy, MaySubmit
  <1>6. CASE Answered BY <1>6 DEF Answered
  <1>7. CASE Failed BY <1>7 DEF Failed, NotBusy
  <1>8. CASE Reload BY <1>8 DEF Reload
  <1>9. CASE UNCHANGED vars BY <1>9 DEF vars
  <1> QED BY <1>1, <1>2, <1>3, <1>4, <1>5, <1>6, <1>7, <1>8, <1>9 DEF Next

LEMMA StepAbout == FieldHeld /\ VerdictIsAboutField /\ [Next]_vars => VerdictIsAboutField'
  <1> SUFFICES ASSUME FieldHeld, VerdictIsAboutField, [Next]_vars PROVE VerdictIsAboutField' OBVIOUS
  <1> USE DEF VerdictIsAboutField
  <1>1. CASE Configure BY <1>1 DEF Configure
  <1>2. CASE Type BY <1>2 DEF Type
  <1>3. CASE Score BY <1>3 DEF Score
  <1>4. CASE GateWeak BY <1>4 DEF GateWeak, Show
  <1>5. CASE Submit BY <1>5 DEF Submit
  <1>6. CASE Answered
    <2>1. request = field BY <1>6 DEF Answered, FieldHeld
    <2>2. verdict'.about = request /\ verdict'.rows \in {Empty, request} BY <1>6 DEF Answered, Show
    <2> QED BY <1>6, <2>1, <2>2 DEF Answered
  <1>7. CASE Failed BY <1>7 DEF Failed, Show, FieldHeld
  <1>8. CASE Reload BY <1>8 DEF Reload
  <1>9. CASE UNCHANGED vars BY <1>9 DEF vars
  <1> QED BY <1>1, <1>2, <1>3, <1>4, <1>5, <1>6, <1>7, <1>8, <1>9 DEF Next

LEMMA StepInv == Inv /\ [Next]_vars => Inv'
  BY StepType, StepField, StepAbout DEF Inv

\* The variables keep their types, and the field is held while a request is out.
THEOREM Invariance == Spec => []Inv
  BY InitInv, StepInv, PTL DEF Spec

\* No verdict, however late, is shown beside a password it is not about, but for
\* the 150 ms after a key.
THEOREM NoForeignVerdict == Spec => []VerdictIsAboutField
  <1>1. Inv => VerdictIsAboutField BY DEF Inv
  <1> QED BY Invariance, <1>1, PTL
=============================================================================
