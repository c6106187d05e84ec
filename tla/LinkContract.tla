---------------------------- MODULE LinkContract ----------------------------
(***************************************************************************)
(* What the serial link promises the code above it (ConfigTransfer, the    *)
(* session commands, the firmware updater), whatever the line does:        *)
(*                                                                         *)
(*  - a unit acts on a request only after it was issued, at most once per  *)
(*    transmission its budget allows, and never after it has acted on a    *)
(*    later one;                                                           *)
(*  - a request reported ok or refused was judged so by a unit: by one     *)
(*    that echoes CRCs, on exactly that frame (or, for a read, on one its  *)
(*    reply cannot be told from);                                          *)
(*  - answers arrive in the order of the requests.                         *)
(*                                                                         *)
(* A failed request promises nothing: the unit may have acted on it or     *)
(* not.  DeviceLink implements this specification.                         *)
(***************************************************************************)
EXTENDS LinkRequests

VARIABLES
    result,   \* what the handler of each request was told
    tries,    \* how many times a unit acted on each request
    verdicts  \* the verdicts <<request, unit, verdict>> units have given

vars == <<result, tries, verdicts>>

\* "failed" is errCode 0 (no response, cancelled, not connected); "garbled" is
\* the NACK of a frame the unit could not read, once the budget is spent.
Result == {"idle", "waiting", "ok", "refused", "failed", "garbled"}

Init ==
    /\ result = [n \in Request |-> "idle"]
    /\ tries = [n \in Request |-> 0]
    /\ verdicts = {}

\* Some unit gave verdict v on a request whose reply answers n.
Backed(n, v) ==
    \E m \in Request, u \in Unit :
        /\ <<m, u, v>> \in verdicts
        /\ Answers(m, v, u \in EchoUnits, n)

\* How the report on request n may change in one step of the host.
MayReport(n, new) ==
    \/ result[n] = "idle" /\ new \in {"waiting", "failed"}
    \/ result[n] = "waiting" /\ new \in {"failed", "garbled"}
    \/ /\ result[n] = "waiting" /\ new \in Verdict
       /\ Backed(n, new)
       /\ \A m \in Request : m < n => result[m] \notin {"idle", "waiting"}

HostStep ==
    /\ result' \in [Request -> Result]
    /\ \A n \in Request :
         result'[n] # result[n] => MayReport(n, result'[n])
    /\ UNCHANGED <<tries, verdicts>>

UnitStep ==
    \E n \in Request, u \in Unit, v \in Verdict :
        /\ result[n] # "idle"
        /\ tries[n] <= Budget[n]
        /\ \A m \in Request : tries[m] > 0 => m <= n
        /\ tries' = [tries EXCEPT ![n] = @ + 1]
        /\ verdicts' = verdicts \union {<<n, u, v>>}
        /\ UNCHANGED result

Next == HostStep \/ UnitStep

Spec == Init /\ [][Next]_vars
=============================================================================
