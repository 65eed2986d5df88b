----------------------------- MODULE WebClient ------------------------------
(***************************************************************************)
(* The page (static/js/app.js): the password is scored as it is typed,     *)
(* 150 ms after the last key, and sent once when the user submits it.      *)
(* Events run one at a time, in any order the browser delivers them: keys, *)
(* the timer, submissions, and the ends of the two fetches.                *)
(***************************************************************************)
EXTENDS Naturals

CONSTANTS
    Passwords,      \* what may be in the field, the empty value apart
    LocalScore,     \* zxcvbn's score of each
    ServerSettings  \* what GET api/v1/config may answer, once

Empty == "empty"
ASSUME PasswordAssumption == Empty \notin Passwords /\ LocalScore \in [Passwords -> 0..4]
ASSUME SettingsAssumption == ServerSettings \subseteq [enabled : BOOLEAN, min_score : 0..4]

Field == Passwords \cup {Empty}
\* "leaked" stands for the other verdicts too, which are shown alike.
ServerVerdicts == {"safe", "leaked", "weak", "error"}

\* A JSON object in answer to /check, from a route or from whatever stands in
\* front of the application: nobody looks at response.ok.
Body == [verdict : ServerVerdicts \cup {"none"}, error : BOOLEAN, checks : BOOLEAN]

\* What is on screen: nothing, or a verdict, the value it is about, and whose
\* checks are listed below it.
Hidden == [name |-> "hidden", about |-> Empty, rows |-> Empty]

VARIABLES
    field,      \* input.value
    timer,      \* debounceTimer is armed
    ready,      \* zxcvbnReady: the three scripts before this one have run
    settings,   \* the gate's
    configured, \* the configuration fetch has ended
    busy,       \* the button is disabled and the field read-only
    request,    \* the password sent and not yet answered
    verdict,
    rows        \* whose checks the breakdown lists, shown or not

vars == <<field, timer, ready, settings, configured, busy, request, verdict, rows>>

\* The gate of app.js until the server says otherwise.
Shipped == [enabled |-> TRUE, min_score |-> 3]

TypeOK ==
    /\ field \in Field
    /\ timer \in BOOLEAN
    /\ ready \in BOOLEAN
    /\ settings \in [enabled : BOOLEAN, min_score : 0..4]
    /\ configured \in BOOLEAN
    /\ busy \in BOOLEAN
    /\ request \in Field
    /\ verdict \in [name : ServerVerdicts \cup {"hidden"}, about : Field, rows : Field]
    /\ rows \in Field

Init ==
    /\ field = Empty
    /\ timer = FALSE
    /\ ready \in BOOLEAN
    /\ settings = Shipped
    /\ configured = FALSE
    /\ busy = FALSE
    /\ request = Empty
    /\ verdict = Hidden
    /\ rows = Empty

-----------------------------------------------------------------------------
\* Not ok, or no JSON: the defaults stay.
Configure ==
    /\ ~configured
    /\ configured' = TRUE
    /\ settings' \in ServerSettings \cup {settings}
    /\ UNCHANGED <<field, timer, ready, busy, request, verdict, rows>>

\* onInput.  The browser lets nobody type into a read-only field.
Type ==
    /\ ~busy
    /\ field' \in Field \ {field}
    /\ timer' = TRUE
    /\ UNCHANGED <<ready, settings, configured, busy, request, verdict, rows>>

\* score.  With something to score and no library, it is looked for again.
Score ==
    /\ timer
    /\ timer' = FALSE
    /\ verdict' = Hidden
    /\ IF field # Empty /\ ~ready THEN ready' \in BOOLEAN ELSE UNCHANGED ready
    /\ UNCHANGED <<field, settings, configured, busy, request, rows>>

\* renderBreakdown or replaceChildren, then showVerdict.
Show(name, about, checks) ==
    /\ verdict' = [name |-> name, about |-> about, rows |-> checks]
    /\ rows' = checks

TooWeak == settings.enabled /\ ready /\ LocalScore[field] < settings.min_score

\* A disabled default button blocks submission by the keyboard too.
MaySubmit == ~busy /\ field # Empty

GateWeak ==
    /\ MaySubmit
    /\ TooWeak
    /\ Show("weak", field, Empty)
    /\ UNCHANGED <<field, timer, ready, settings, configured, busy, request>>

\* Fault: the field stays open while the answer is on its way.
OpenField == FALSE

Busy == TRUE

Submit ==
    /\ MaySubmit
    /\ ~TooWeak
    /\ busy' = Busy
    /\ request' = field
    /\ UNCHANGED <<field, timer, ready, settings, configured, verdict, rows>>

\* body.verdict || (body.error ? 'error' : 'safe')
VerdictShown(body) ==
    CASE body.verdict # "none" -> body.verdict
      [] body.verdict = "none" /\ body.error -> "error"
      [] OTHER -> "safe"

Answered ==
    /\ request # Empty
    /\ \E body \in Body :
          Show(VerdictShown(body), request, IF body.checks THEN request ELSE Empty)
    /\ request' = Empty
    /\ busy' = FALSE
    /\ UNCHANGED <<field, timer, ready, settings, configured>>

\* Fault: only a fetch that succeeds ends the wait.
StillBusy == busy

NotBusy == FALSE

\* The network fails, or the body is no JSON.
Failed ==
    /\ request # Empty
    /\ Show("error", request, Empty)
    /\ request' = Empty
    /\ busy' = NotBusy
    /\ UNCHANGED <<field, timer, ready, settings, configured>>

\* The user loads the page again: what was under way is forgotten, and ends
\* unseen.
Reload ==
    /\ field' = Empty
    /\ timer' = FALSE
    /\ ready' \in BOOLEAN
    /\ settings' = Shipped
    /\ configured' = FALSE
    /\ busy' = FALSE
    /\ request' = Empty
    /\ verdict' = Hidden
    /\ rows' = Empty

Next == Configure \/ Type \/ Score \/ GateWeak \/ Submit \/ Answered \/ Failed \/ Reload

\* A browser gives up a request nobody answers.
Spec == Init /\ [][Next]_vars /\ WF_vars(Answered \/ Failed)

-----------------------------------------------------------------------------
(* What the page promises. *)

\* Whatever verdict is on screen is about the password in the field, and so are
\* the checks below it, unless a key was pressed within the last 150 ms: no
\* answer, however late, is shown beside another password.
VerdictIsAboutField ==
    verdict # Hidden => timer \/ (verdict.about = field /\ verdict.rows \in {Empty, field})

\* A submission ends: the field can be typed in again, with a verdict beside it
\* unless the page was loaded anew.
SubmissionEnds == busy ~> ~busy /\ (verdict # Hidden \/ field = Empty)

=============================================================================
