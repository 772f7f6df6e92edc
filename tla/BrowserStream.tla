------------------------------ MODULE BrowserStream ------------------------------
(* One page of the live browser and the streams that replace one another on it    *)
(* (server/browser/manager.ts). Each attach and each detach queues one operation  *)
(* on the page's chain of promises (`streamOperation`); an operation sends two    *)
(* or three commands to Chromium and looks again at who streams before each one.  *)
(* Opening the page ends with a freeze of its own, which is not on that chain.    *)
EXTENDS Naturals, Sequences, FiniteSets

CONSTANTS Responses,      \* the stream responses clients may ask for
          MaxFaults,      \* bound: commands Chromium may refuse
          None

VARIABLES stream,         \* the response that is streamed to, or None
          gone,           \* the responses that have closed
          attached,       \* every response ever attached
          newest,         \* ghost: the last of them, or None
          chain,          \* Seq of [kind, res, at]: the operations not yet done
          lifecycle,      \* what Chromium was last told: "active" or "frozen"
          casting,        \* the screencast runs
          opening,        \* "goto", "done", or "failed": openPage's last steps
          early,          \* a response was attached before openPage had ended
          faults, stopFailed

vars == <<stream, gone, attached, newest, chain, lifecycle, casting, opening, early,
          faults, stopFailed>>

Operation == [kind: {"start", "stop"}, res: Responses \cup {None}, at: 0..2]

TypeOK ==
  /\ stream \in Responses \cup {None}
  /\ gone \subseteq attached /\ attached \subseteq Responses
  /\ newest \in attached \cup {None}
  /\ chain \in Seq(Operation)
  /\ lifecycle \in {"active", "frozen"} /\ casting \in BOOLEAN
  /\ opening \in {"goto", "done", "failed"}
  /\ early \in BOOLEAN /\ faults \in 0..MaxFaults /\ stopFailed \in BOOLEAN

(* A page is in its slot, and can be streamed, while its first navigation runs. *)
Init ==
  /\ stream = None /\ gone = {} /\ attached = {} /\ newest = None /\ chain = <<>>
  /\ lifecycle = "active" /\ casting = FALSE /\ opening = "goto"
  /\ early = FALSE /\ faults = 0 /\ stopFailed = FALSE

Queued(kind, res) == Append(chain, [kind |-> kind, res |-> res, at |-> 0])

(* openPage freezes the page when its navigation ended, and throws past that     *)
(* command when the navigation failed: a page that nobody streams stays active.  *)
OpenEnds ==
  /\ opening = "goto"
  /\ opening' \in {"done", "failed"}
  /\ lifecycle' = IF opening' = "done" THEN "frozen" ELSE lifecycle
  /\ UNCHANGED <<stream, gone, attached, newest, chain, casting, early, faults, stopFailed>>

(* A response takes the stream over; the one before it is ended by the server,   *)
(* and closes when it pleases.                                                   *)
Attach(r) ==
  /\ r \notin attached
  /\ attached' = attached \cup {r} /\ newest' = r
  /\ stream' = r
  /\ chain' = Queued("start", r)
  /\ early' = (early \/ opening = "goto")
  /\ UNCHANGED <<gone, lifecycle, casting, opening, faults, stopFailed>>

\* Mutant: a late close of an old response detaches the one that replaced it.
LateDetach(r) ==
  /\ r \in attached \ gone
  /\ gone' = gone \cup {r}
  /\ stream' = None
  /\ chain' = Queued("stop", None)
  /\ UNCHANGED <<attached, newest, lifecycle, casting, opening, early, faults, stopFailed>>

(* A response's close event: its client went away, or the server had ended it.   *)
(* It detaches the stream only when it is still the one that streams.            *)
Detach(r) ==
  /\ r \in attached \ gone
  /\ gone' = gone \cup {r}
  /\ stream' = IF stream = r THEN None ELSE stream
  /\ chain' = IF stream = r THEN Queued("stop", None) ELSE chain
  /\ UNCHANGED <<attached, newest, lifecycle, casting, opening, early, faults, stopFailed>>

Step == [chain EXCEPT ![1].at = @ + 1]

(* The head operation is a start: stop the cast, wake the page, start the cast,  *)
(* as long as its response is the one that streams.                              *)
Start ==
  /\ chain # <<>> /\ Head(chain).kind = "start"
  /\ LET op == Head(chain)
         wanted == stream = op.res /\ op.res \notin gone
     IN \/ ~wanted /\ chain' = Tail(chain) /\ UNCHANGED <<lifecycle, casting>>
        \/ /\ wanted
           /\ chain' = IF op.at = 2 THEN Tail(chain) ELSE Step
           /\ lifecycle' = IF op.at = 1 THEN "active" ELSE lifecycle
           /\ casting' = IF op.at = 1 THEN casting ELSE op.at = 2
  /\ UNCHANGED <<stream, gone, attached, newest, opening, early, faults, stopFailed>>

(* The head operation is a stop: stop the cast and freeze the page, unless a     *)
(* stream came in the meantime.                                                  *)
Stop ==
  /\ chain # <<>> /\ Head(chain).kind = "stop"
  /\ \/ stream # None /\ chain' = Tail(chain) /\ UNCHANGED <<lifecycle, casting>>
     \/ /\ stream = None
        /\ chain' = IF Head(chain).at = 0 THEN Step ELSE Tail(chain)
        /\ casting' = FALSE
        /\ lifecycle' = IF Head(chain).at = 1 THEN "frozen" ELSE lifecycle
  /\ UNCHANGED <<stream, gone, attached, newest, opening, early, faults, stopFailed>>

(* Chromium refuses the head operation's command: the operation ends there. A    *)
(* start that fails rejects attachStream, whose route ends the response.         *)
Refused ==
  /\ chain # <<>> /\ faults < MaxFaults
  /\ faults' = faults + 1
  /\ chain' = Tail(chain)
  /\ stopFailed' = (stopFailed \/ Head(chain).kind = "stop")
  /\ UNCHANGED <<stream, gone, attached, newest, lifecycle, casting, opening, early>>

Next ==
  \/ OpenEnds \/ Start \/ Stop \/ Refused
  \/ \E r \in Responses : Attach(r) \/ Detach(r)

Spec == Init /\ [][Next]_vars

-------------------------------------------------------------------------------
(* When the chain is done, the page whose last viewer is still there is awake    *)
(* and cast, and the page whose last viewer has gone, or that had none, is        *)
(* frozen, however attaches and closes interleaved with the commands, those of    *)
(* viewers that were replaced included (manager.ts:10, :352), and also after a    *)
(* start that failed. Left out: a page whose stream was attached before           *)
(* openPage's own freeze, and what a refused command itself leaves undone.        *)
PageFollowsStream ==
  chain = <<>> /\ ~early /\ opening = "done" =>
    LET watched == newest # None /\ newest \notin gone IN
      /\ watched /\ faults = 0 => lifecycle = "active" /\ casting
      /\ ~watched /\ ~stopFailed => lifecycle = "frozen" /\ ~casting

(* Why that is so. The stream is that of the last viewer until it has gone, and   *)
(* the last operation queued is the one that serves it, or freezes the page.      *)
StreamIsNewest == stream = IF newest # None /\ newest \notin gone THEN newest ELSE None
LastServesStream ==
  newest # None /\ chain # <<>> =>
    LET last == chain[Len(chain)] IN
      IF stream = None THEN last.kind = "stop" ELSE last.kind = "start" /\ last.res = stream

(* Only the head has sent commands, and they are in effect unless openPage's own  *)
(* freeze came after them.                                                        *)
OnlyHeadBegan ==
  \A i \in DOMAIN chain :
    /\ i > 1 => chain[i].at = 0
    /\ chain[i].kind = "stop" => chain[i].at < 2
HeadInEffect ==
  chain # <<>> /\ ~early =>
    /\ Head(chain).kind = "start" /\ Head(chain).at = 2 => lifecycle = "active"
    /\ Head(chain).kind = "stop" /\ Head(chain).at = 1 => ~casting

(* A page that had no viewer yet is as openPage left it; with the chain done, one *)
(* that had is as its last operation left it, once openPage was over before.      *)
PageIsServed ==
  /\ newest = None =>
       attached = {} /\ chain = <<>> /\ ~casting /\ (opening = "done" => lifecycle = "frozen")
  /\ newest # None /\ ~early =>
       /\ opening # "goto"
       /\ chain = <<>> =>
            IF stream = None THEN stopFailed \/ (lifecycle = "frozen" /\ ~casting)
            ELSE faults = 0 => lifecycle = "active" /\ casting

StreamInv ==
  /\ PageFollowsStream /\ StreamIsNewest /\ LastServesStream
  /\ OnlyHeadBegan /\ HeadInEffect /\ PageIsServed

(* "A page not being streamed is frozen (timers halted, renderer reclaimable)"   *)
(* (manager.ts:10): once the page was opened, and every command was carried out. *)
UnstreamedIsFrozen ==
  chain = <<>> /\ faults = 0 /\ stream = None /\ opening # "goto" =>
    lifecycle = "frozen"
================================================================================
