---------------------------- MODULE WebUIProofs ----------------------------
(***************************************************************************)
(* Proofs about the web interface and its server (WebUIProps).             *)
(***************************************************************************)
EXTENDS WebUIPageProofs

-----------------------------------------------------------------------------
(* The exchange *)

LiveIn(u) == {r \in Outstanding(u) : r.live}

\* One request, or one poll to come, and never both.
Lone(u) ==
  /\ u.pollSession <= 1 /\ u.pollStep <= 1
  /\ u.pollSession = 0 \/ u.pollStep = 0
  /\ LiveIn(u) # {} => u.pollSession = 0 /\ u.pollStep = 0
  /\ \A r, q \in LiveIn(u) : r = q
  /\ \A r \in LiveIn(u) : u.requests[r] = 1

\* The source has a highlight to take back only if no listing is awaited.
AwaitsSession(u) ==
  u.pollSession > 0 \/ \E r \in LiveIn(u) : r.kind = "session-state"
SourceLit(u) == OneLit(u.source) /\ (AwaitsSession(u) => Dark(u.source))

\* A step is of the session the page is attached to, and its state is asked
\* for with the count of the tries reset.
Own(u) ==
  \A r \in LiveIn(u) :
    r.kind \in {"step", "step-state"} =>
      r.sid = u.session /\ (r.kind = "step-state" => u.pollTries = 0)

OneExchange(u) == Lone(u) /\ SourceLit(u) /\ Own(u)
AnswersLive(u) == \A r \in Outstanding(u) : r.resp # NoAnswer => r.live

(* What asks for nothing leaves the exchange as it was.                      *)
LEMMA ExchangeKept ==
  ASSUME NEW u, NEW v, v.requests = u.requests, v.pollSession = u.pollSession,
         v.pollStep = u.pollStep, v.pollTries = u.pollTries, v.session = u.session,
         OneLit(u.source) => OneLit(v.source), Dark(u.source) => Dark(v.source)
  PROVE  OneExchange(u) => OneExchange(v)
<1>1. Outstanding(v) = Outstanding(u) /\ LiveIn(v) = LiveIn(u)
  BY DEF Outstanding, LiveIn
<1> QED BY <1>1 DEF OneExchange, Lone, SourceLit, AwaitsSession, Own

(* What is asked while nothing else is under way is alone.                   *)
LEMMA AskedAlone ==
  ASSUME NEW u, PageTypes(u), ~Busy(u), NEW r, r.live, NEW v, Asks(u, v, r),
         v.pollSession = u.pollSession, v.pollStep = u.pollStep
  PROVE  /\ Lone(v) /\ LiveIn(v) = {r} /\ v.pollSession = 0 /\ v.pollStep = 0
         /\ Outstanding(v) = Outstanding(u) \union {r}
<1>1. /\ IsABag(u.requests) /\ u.pollSession \in Nat /\ u.pollStep \in Nat
  BY DEF PageTypes, RequestTypes, ControlTypes
<1>2. /\ \A q \in Outstanding(u) : ~q.live
      /\ v.pollSession = 0 /\ v.pollStep = 0
  BY <1>1 DEF Busy
<1>3. /\ Outstanding(v) = Outstanding(u) \union {r}
      /\ v.requests[r] = IF r \in Outstanding(u) THEN u.requests[r] + 1 ELSE 1
  BY <1>1, Added DEF Asks, Outstanding
<1>4. LiveIn(v) = {r} /\ r \notin Outstanding(u)
  BY <1>2, <1>3 DEF LiveIn
<1>5. v.requests[r] = 1
  BY <1>3, <1>4
<1> QED BY <1>2, <1>3, <1>4, <1>5 DEF Lone

(* What is asked is outstanding.                                             *)
LEMMA AskedIsOutstanding ==
  ASSUME NEW u, PageTypes(u), NEW r, NEW v, Asks(u, v, r)
  PROVE  Outstanding(v) = Outstanding(u) \union {r}
<1>1. IsABag(u.requests)
  BY DEF PageTypes, RequestTypes
<1> QED BY <1>1, Added DEF Asks, Outstanding

(* A request that is asked for is sent.                                      *)
LEMMA AskedIsSent ==
  ASSUME NEW u, PageTypes(u), NEW r, r.live, NEW v, Asks(u, v, r)
  PROVE  Sent(u, v)
<1>1. IsABag(u.requests)
  BY DEF PageTypes, RequestTypes
<1>2. /\ Outstanding(v) = Outstanding(u) \union {r}
      /\ v.requests[r] = IF r \in Outstanding(u) THEN u.requests[r] + 1 ELSE 1
  <2>1. v.requests = u.requests (+) SetToBag({r})
    BY DEF Asks
  <2>2. LET C == u.requests (+) SetToBag({r}) IN
        /\ BagToSet(C) = BagToSet(u.requests) \union {r}
        /\ C[r] = IF r \in BagToSet(u.requests) THEN u.requests[r] + 1 ELSE 1
    BY <1>1, Added
  <2> QED BY <2>1, <2>2 DEF Outstanding
<1>3. r \in Outstanding(u) => u.requests[r] \in Nat
  BY <1>1 DEF IsABag, Outstanding, BagToSet
<1> QED BY <1>2, <1>3 DEF Sent

(* The request whose answer is applied is gone.                              *)
LEMMA AnsweredIsGone ==
  ASSUME NEW u, PageTypes(u), NEW r \in Outstanding(u)
  PROVE  LET v == [u EXCEPT !.requests = @ (-) SetToBag({r})] IN
         /\ PageTypes(v) /\ SameControl(u, v) /\ SameTables(u, v)
         /\ SameEditors(u, v) /\ SamePolls(u, v) /\ v.threw = u.threw
         /\ Outstanding(v) \subseteq Outstanding(u)
         /\ Lone(u) /\ r.live =>
              LiveIn(v) = {} /\ v.pollSession = 0 /\ v.pollStep = 0
<1> DEFINE B == u.requests (-) SetToBag({r})
           v == [u EXCEPT !.requests = B]
<1>1. IsABag(u.requests)
  BY DEF PageTypes, RequestTypes
<1>2. /\ IsABag(B)
      /\ BagToSet(B) = IF u.requests[r] = 1 THEN Outstanding(u) \ {r} ELSE Outstanding(u)
  BY <1>1, Removed DEF Outstanding
<1> HIDE DEF B
<1>3. /\ DOMAIN v = DOMAIN u /\ v.requests = B /\ SameControl(u, v)
      /\ SameTables(u, v) /\ SameEditors(u, v) /\ SamePolls(u, v)
      /\ v.threw = u.threw /\ v.autoTimer = u.autoTimer /\ v.strayTimers = u.strayTimers
  BY DEF PageTypes, PageFields, SameControl, SameTables, SameEditors,
     SameListing, SamePolls
<1> HIDE DEF v
<1>4. Outstanding(v) = BagToSet(B) /\ Outstanding(v) \subseteq Outstanding(u)
  BY <1>2, <1>3 DEF Outstanding
<1>5. RequestTypes(v)
  BY <1>2, <1>3, <1>4 DEF PageTypes, RequestTypes
<1>6. PageTypes(v)
  BY <1>3, <1>5 DEF PageTypes, ControlTypes, EditorTypes, TableTypes,
     SameControl,
     SameTables, SameEditors, SameListing, SamePolls
<1>7. ASSUME Lone(u), r.live
      PROVE  LiveIn(v) = {} /\ v.pollSession = 0 /\ v.pollStep = 0
  <2>1. r \in LiveIn(u)
    BY <1>7 DEF LiveIn
  <2>2. /\ u.requests[r] = 1 /\ u.pollSession = 0 /\ u.pollStep = 0
        /\ \A q \in LiveIn(u) : q = r
    BY <1>7, <2>1 DEF Lone
  <2> QED BY <1>2, <1>3, <1>4, <2>2 DEF LiveIn, SamePolls
<1> QED BY <1>3, <1>4, <1>6, <1>7 DEF B, v

(* A request is replaced by the same with its answer.                        *)
LEMMA AnswerComes ==
  ASSUME NEW u, PageTypes(u), NEW r \in Outstanding(u), NEW a,
         a = [is |-> "error"] \/ a \in AnswerType
  PROVE  LET q == [r EXCEPT !.resp = a]
             v == [u EXCEPT !.requests = (@ (-) SetToBag({r})) (+) SetToBag({q})]
         IN /\ PageTypes(v) /\ SameControl(u, v) /\ SameTables(u, v)
            /\ SameEditors(u, v) /\ SamePolls(u, v) /\ v.threw = u.threw
            /\ q.kind = r.kind /\ q.sid = r.sid /\ q.live = r.live /\ q.resp = a
            /\ q \in Outstanding(v) /\ Outstanding(v) \subseteq Outstanding(u) \union {q}
            /\ Lone(u) /\ r.live => Lone(v) /\ LiveIn(v) = {q}
<1> DEFINE q == [r EXCEPT !.resp = a]
           B == u.requests (-) SetToBag({r})
           b == [u EXCEPT !.requests = B]
           C == B (+) SetToBag({q})
           v == [u EXCEPT !.requests = C]
<1>1. /\ PageTypes(b) /\ SameControl(u, b) /\ SameTables(u, b)
      /\ SameEditors(u, b) /\ SamePolls(u, b) /\ b.threw = u.threw
      /\ Outstanding(b) \subseteq Outstanding(u)
      /\ Lone(u) /\ r.live =>
           LiveIn(b) = {} /\ b.pollSession = 0 /\ b.pollStep = 0
  BY AnsweredIsGone
<1>2. b.requests = B
  BY DEF PageTypes, PageFields
<1>3. RequestType(r)
  BY DEF PageTypes, RequestTypes
<1>4. /\ q = [kind |-> r.kind, sid |-> r.sid, arg |-> r.arg, live |-> r.live,
              resp |-> a]
  BY <1>3 DEF RequestType
<1> HIDE DEF q
<1>5. /\ q.kind = r.kind /\ q.sid = r.sid /\ q.live = r.live /\ q.resp = a
      /\ q.arg = r.arg
  BY <1>4
<1>6. /\ a.is \in {"error", "data"}
      /\ a.is = "data" => a \in AnswerType
  BY DEF AnswerType
<1>7. RequestType(q)
  <2>1. q = [kind |-> q.kind, sid |-> q.sid, arg |-> q.arg, live |-> q.live,
             resp |-> q.resp]
    BY <1>4, <1>5
  <2>2. /\ q.resp.is \in {"none", "error", "data"}
        /\ q.resp.is = "none" => q.resp = NoAnswer
        /\ q.resp.is = "data" => q.resp \in AnswerType
    BY <1>5, <1>6
  <2> QED BY <1>3, <1>5, <2>1, <2>2 DEF RequestType
<1>8. /\ IsABag(C) /\ BagToSet(C) = BagToSet(B) \union {q}
      /\ C[q] = IF q \in BagToSet(B) THEN B[q] + 1 ELSE 1
  <2>1. IsABag(B)
    BY <1>1, <1>2 DEF PageTypes, RequestTypes
  <2> QED BY <2>1, Added
<1>9. BagToSet(B) = Outstanding(b)
  BY <1>2 DEF Outstanding
<1> HIDE DEF B, C, b
<1>10. /\ DOMAIN v = DOMAIN u /\ v.requests = C /\ SameControl(u, v)
       /\ SameTables(u, v) /\ SameEditors(u, v) /\ SamePolls(u, v)
       /\ v.threw = u.threw /\ v.autoTimer = u.autoTimer /\ v.strayTimers = u.strayTimers
  BY DEF PageTypes, PageFields, SameControl, SameTables, SameEditors,
     SameListing, SamePolls
<1> HIDE DEF v
<1>11. Outstanding(v) = Outstanding(b) \union {q}
  BY <1>8, <1>9, <1>10 DEF Outstanding
<1>12. PageTypes(v)
  <2>1. RequestTypes(v)
    BY <1>1, <1>7, <1>8, <1>10, <1>11 DEF PageTypes, RequestTypes
  <2> QED BY <1>10, <2>1 DEF PageTypes, ControlTypes, EditorTypes, TableTypes,
          SameControl, SameTables, SameEditors, SameListing, SamePolls
<1>13. ASSUME Lone(u), r.live
       PROVE  Lone(v) /\ LiveIn(v) = {q}
  <2>1. LiveIn(b) = {} /\ v.pollSession = 0 /\ v.pollStep = 0
    BY <1>1, <1>10, <1>13 DEF SamePolls
  <2>2. LiveIn(v) = {q} /\ q \notin Outstanding(b)
    BY <1>5, <1>11, <1>13, <2>1 DEF LiveIn
  <2>3. v.requests[q] = 1
    BY <1>8, <1>9, <1>10, <2>2
  <2> QED BY <2>1, <2>2, <2>3 DEF Lone
<1> QED BY <1>1, <1>5, <1>10, <1>11, <1>12, <1>13 DEF v, C, B, q

-----------------------------------------------------------------------------
(* The inductive invariant *)

\* The request or the poll that will find the step of session s executed.
StepUnderWay(u, s) ==
  \/ u.pollStep > 0 /\ s \in Named(u.session)
  \/ \E r \in LiveIn(u) :
       /\ s \in Named(r.sid)
       /\ \/ r.kind = "step" /\ r.resp.is = "data" /\ r.resp.ok
          \/ /\ r.kind = "step-state" /\ r.resp.is # "error"
             /\ r.resp.is = "data" => ~r.resp.ok

StepsAsked(u) ==
  \A s \in Session :
    server[s].steps > 0 => server[s].steps = 1 /\ StepUnderWay(u, s)

ServerAgrees ==
  /\ \A s \in Session : server[s].steps > 0 => server[s].st = "ready"
  /\ single => \A s, t \in Live : s = t

\* The parts that are of the page alone.
PageInv(u) == PageTypes(u) /\ ~u.threw /\ PageAgrees(u) /\ AnswersLive(u)

Inv ==
  /\ PageInv(ui)
  /\ server \in [Session -> SessionType] /\ ServerAgrees
  /\ ~overlap => OneExchange(ui)
  /\ ~excused => \A r \in Outstanding(ui) : r.live
  /\ ~overlap /\ ~excused => StepsAsked(ui)

(* The end of a handler forgets that it threw, and nothing else.             *)
LEMMA Caught ==
  ASSUME NEW u, PageTypes(u), PageAgrees(u)
  PROVE  LET v == [u EXCEPT !.threw = FALSE] IN
         /\ PageTypes(v) /\ PageAgrees(v) /\ ~v.threw
         /\ SameControl(u, v) /\ SameExchange(u, v) /\ SameTables(u, v)
         /\ SameEditors(u, v)
<1> DEFINE v == [u EXCEPT !.threw = FALSE]
<1>1. /\ PageTypes(v) /\ ~v.threw /\ SameControl(u, v) /\ SameExchange(u, v)
      /\ SameTables(u, v) /\ SameEditors(u, v)
  BY DEF PageTypes, PageFields, ControlTypes, EditorTypes, TableTypes,
     RequestTypes,
     Outstanding, SameControl, SameExchange, SameTables, SameEditors, SameListing
<1> HIDE DEF v
<1>2. PageAgrees(v)
  BY <1>1, PagesAlike DEF PageAgrees, SameEditors
<1> QED BY <1>1, <1>2 DEF v

(* A handler that leaves the page and the exchange in order keeps the        *)
(* invariant.                                                                *)
LEMMA HandlerKeeps ==
  ASSUME Inv, NEW u, PageTypes(u), PageAgrees(u), AnswersLive(u),
         ui' = [u EXCEPT !.threw = FALSE], UNCHANGED <<server, single>>,
         ~overlap' => OneExchange(u),
         ~excused' => \A r \in Outstanding(u) : r.live,
         ~overlap' /\ ~excused' => StepsAsked(u)
  PROVE  Inv'
<1>1. /\ PageTypes(ui') /\ PageAgrees(ui') /\ ~ui'.threw
      /\ SameControl(u, ui') /\ SameExchange(u, ui')
      /\ SameTables(u, ui') /\ SameEditors(u, ui')
  BY Caught
<1>2. Outstanding(ui') = Outstanding(u) /\ LiveIn(ui') = LiveIn(u)
  BY <1>1 DEF SameExchange, Outstanding, LiveIn
<1>3. OneExchange(u) => OneExchange(ui')
  BY <1>1, ExchangeKept DEF SameControl, SameExchange, SameEditors, Dark, OneLit
<1>4. AnswersLive(ui')
  BY <1>2 DEF AnswersLive
<1>5. StepsAsked(u) => StepsAsked(ui)'
  BY <1>1, <1>2 DEF StepsAsked, StepUnderWay, Named, Live, SameControl,
     SameExchange
<1>6. (server \in [Session -> SessionType])' /\ ServerAgrees'
  BY DEF Inv, ServerAgrees, Live
<1>7. PageInv(ui)' /\ OneExchange(ui)' = OneExchange(ui')
  BY <1>1, <1>4 DEF PageInv
<1>8. \A r \in Outstanding(ui)' : r \in Outstanding(u)
  BY <1>2
<1> QED BY <1>3, <1>5, <1>6, <1>7, <1>8 DEF Inv

(* A handler that asks for nothing.                                          *)
LEMMA QuietHandler ==
  ASSUME Inv, NEW u, PageTypes(u), PageAgrees(u),
         u.requests = ui.requests, u.session = ui.session,
         u.pollSession = ui.pollSession, u.pollStep = ui.pollStep,
         u.pollTries = ui.pollTries,
         OneLit(ui.source) => OneLit(u.source), Dark(ui.source) => Dark(u.source),
         NEW base, Handled(base, u), UNCHANGED <<server, single>>,
         ~excused' => ~excused
  PROVE  Inv'
<1>1. Outstanding(u) = Outstanding(ui) /\ LiveIn(u) = LiveIn(ui)
  BY DEF Outstanding, LiveIn
<1>2. ui' = [u EXCEPT !.threw = FALSE] /\ (~overlap' => ~overlap)
  BY DEF Handled
<1>3. ~overlap' => OneExchange(u)
  BY <1>2, ExchangeKept DEF Inv
<1>4. AnswersLive(u)
  BY <1>1 DEF Inv, PageInv, AnswersLive
<1>5. ~excused' => \A r \in Outstanding(u) : r.live
  BY <1>1 DEF Inv
<1>6. StepsAsked(ui) => StepsAsked(u)
  BY <1>1 DEF StepsAsked, StepUnderWay
<1>7. ~overlap' /\ ~excused' => StepsAsked(u)
  BY <1>2, <1>6 DEF Inv
<1> QED BY <1>2, <1>3, <1>4, <1>5, <1>7, HandlerKeeps

(* A handler that asks for something.  Unless what it asks for is the state  *)
(* of a step under way, nothing is under way if exchanges do not overlap.    *)
LEMMA AskingHandler ==
  ASSUME Inv, NEW base, PageTypes(base), base.requests = ui.requests,
         NEW u, PageTypes(u), PageAgrees(u),
         NEW r, r.live, r.resp = NoAnswer, Asks(base, u, r),
         u.pollSession = base.pollSession, u.pollStep = base.pollStep,
         r.kind \in {"step", "step-state"} => r.sid = u.session,
         r.kind = "step-state" => u.pollTries = 0,
         OneLit(ui.source) => OneLit(u.source),
         r.kind = "session-state" =>
           Dark(u.source) \/ (AwaitsSession(ui) /\ u.source = ui.source),
         \A s \in Session : StepUnderWay(ui, s) => Busy(base) \/ StepUnderWay(u, s),
         Handled(base, u), UNCHANGED <<server, single>>,
         ~excused' => ~excused
  PROVE  Inv'
<1>1. ui' = [u EXCEPT !.threw = FALSE] /\ (~overlap' => ~overlap /\ ~Busy(base))
  BY AskedIsSent DEF Handled
<1>2. Outstanding(base) = Outstanding(ui)
  BY DEF Outstanding
<1>3. Outstanding(u) = Outstanding(base) \union {r}
  BY AskedIsOutstanding
<1>4. AnswersLive(u)
  BY <1>2, <1>3 DEF Inv, PageInv, AnswersLive
<1>5. ~excused' => \A q \in Outstanding(u) : q.live
  BY <1>2, <1>3 DEF Inv
<1>6. ASSUME ~Busy(base)
      PROVE  Lone(u) /\ LiveIn(u) = {r} /\ u.pollSession = 0 /\ u.pollStep = 0
  BY <1>6, AskedAlone
<1>7. ASSUME ~overlap'
      PROVE  OneExchange(u)
  <2>1. ~Busy(base) /\ OneExchange(ui)
    BY <1>1, <1>7 DEF Inv
  <2>2. Lone(u) /\ LiveIn(u) = {r} /\ u.pollSession = 0
    BY <1>6, <2>1
  <2>3. OneLit(u.source) /\ (AwaitsSession(ui) => Dark(ui.source))
    BY <2>1 DEF OneExchange, SourceLit
  <2>4. SourceLit(u)
    BY <2>2, <2>3 DEF SourceLit, AwaitsSession
  <2>5. Own(u)
    BY <2>2 DEF Own
  <2> QED BY <2>2, <2>4, <2>5 DEF OneExchange
<1>8. ASSUME ~overlap', ~excused'
      PROVE  StepsAsked(u)
  <2>1. ~Busy(base) /\ StepsAsked(ui)
    BY <1>1, <1>8 DEF Inv
  <2> QED BY <2>1 DEF StepsAsked
<1> QED BY <1>1, <1>4, <1>5, <1>7, <1>8, HandlerKeeps

-----------------------------------------------------------------------------
(* The events of the browser *)

(* What is not in the editors or the tables.                                 *)
LEMMA ControlFrame ==
  ASSUME NEW u, PageTypes(u), NEW v, DOMAIN v = DOMAIN u, ControlTypes(v),
         SameTables(u, v), SameEditors(u, v), v.requests = u.requests
  PROVE  PageTypes(v) /\ (PageAgrees(u) => PageAgrees(v))
<1>1. PageTypes(v)
  BY DEF PageTypes, EditorTypes, TableTypes, RequestTypes, Outstanding,
     SameTables,
     SameEditors, SameListing
<1> QED BY <1>1, PagesAlike DEF PageAgrees, SameEditors

(* A post.                                                                   *)
LEMMA Posted ==
  ASSUME NEW u, PageTypes(u), PageAgrees(u), NEW kind \in Kinds, NEW arg,
         kind = "breakpoint" =>
           /\ arg \in [set : BOOLEAN, byLine : BOOLEAN, at : Nat]
           /\ arg.byLine \/ arg.at \in Addresses \union {Unlisted}
  PROVE  LET v == Send(u, kind, arg)
             r == Request(kind, u.session, arg)
         IN /\ PageTypes(v) /\ PageAgrees(v) /\ v.source = u.source
            /\ SamePolls(u, v) /\ SameControl(u, v) /\ Asks(u, v, r)
            /\ r.live /\ r.resp = NoAnswer /\ r.kind = kind /\ r.sid = u.session
<1> DEFINE v == Send(u, kind, arg)
<1>1. /\ PageTypes(v) /\ SameControl(u, v) /\ SameTables(u, v)
      /\ SameEditors(u, v) /\ SamePolls(u, v)
      /\ Asks(u, v, Request(kind, u.session, arg))
  BY SendPage
<1> HIDE DEF v
<1>2. PageAgrees(v) /\ v.source = u.source
  BY <1>1, PagesAlike DEF PageAgrees, SameEditors
<1> QED BY <1>1, <1>2 DEF Request, v

\* Everything of the page that a timer which is not named leaves alone.
SameRest(u, v) ==
  /\ SameControl(u, v) /\ SameTables(u, v) /\ SameEditors(u, v)
  /\ v.requests = u.requests /\ v.threw = u.threw

(* The state of the session is asked for again.                              *)
LEMMA PollSessionTimerKeeps == ASSUME Inv, PollSessionTimer PROVE Inv'
<1> DEFINE base == [ui EXCEPT !.pollSession = @ - 1]
           a == [base EXCEPT !.pollTries = 0]
           again == TRUE
           u == Send(a, "session-state", again)
           r == Request("session-state", a.session, again)
<1>1. PageTypes(ui) /\ PageAgrees(ui) /\ ui.pollSession > 0
  BY DEF Inv, PageInv, PollSessionTimer
<1>2. /\ DOMAIN base = DOMAIN ui /\ SameRest(ui, base)
      /\ base.pollSession = ui.pollSession - 1 /\ base.pollStep = ui.pollStep
      /\ ControlTypes(base)
  BY <1>1 DEF PageTypes, PageFields, ControlTypes, SameRest, SameControl,
     SameTables,
     SameEditors, SameListing
<1>3. /\ DOMAIN a = DOMAIN base /\ SameRest(base, a)
      /\ a.pollSession = base.pollSession /\ a.pollStep = base.pollStep
      /\ a.pollTries = 0 /\ ControlTypes(a)
  BY <1>1, <1>2, WebUIAssumption DEF PageTypes, PageFields, ControlTypes,
     SameRest,
     SameControl, SameTables, SameEditors, SameListing
<1>4. u = PollSessionState(base, TRUE)
  BY DEF PollSessionState
<1>5. Handled(base, u) /\ UNCHANGED <<server, single, excused>>
  BY <1>4 DEF PollSessionTimer, Timer
<1> HIDE DEF base, a, again
<1>6. PageTypes(base) /\ PageAgrees(base)
  BY <1>1, <1>2, ControlFrame DEF SameRest
<1>7. PageTypes(a) /\ PageAgrees(a)
  BY <1>3, <1>6, ControlFrame DEF SameRest
<1>8. /\ PageTypes(u) /\ PageAgrees(u) /\ u.source = a.source
      /\ SamePolls(a, u) /\ SameControl(a, u) /\ Asks(a, u, r)
      /\ r.live /\ r.resp = NoAnswer /\ r.kind = "session-state" /\ r.sid = a.session
  BY <1>7, Posted DEF Kinds
<1> HIDE DEF u, r
<1>9. /\ base.requests = ui.requests /\ Asks(base, u, r)
      /\ u.pollSession = base.pollSession /\ u.pollStep = base.pollStep
      /\ u.source = ui.source
  BY <1>2, <1>3, <1>8 DEF SameRest, SameEditors, SamePolls, Asks
<1>10. AwaitsSession(ui)
  BY <1>1 DEF AwaitsSession
<1>11. ASSUME NEW s \in Session, StepUnderWay(ui, s)
       PROVE  Busy(base)
  BY <1>2, <1>9, <1>11 DEF StepUnderWay, Busy, LiveIn, Outstanding
<1> QED BY <1>5, <1>6, <1>8, <1>9, <1>10, <1>11, AskingHandler

(* The state of the step is asked for: the step is still under way.          *)
LEMMA PollStepTimerKeeps == ASSUME Inv, PollStepTimer PROVE Inv'
<1> DEFINE base == [ui EXCEPT !.pollStep = @ - 1]
           a == [base EXCEPT !.pollTries = 0]
           u == Send(a, "step-state", Unlisted)
           r == Request("step-state", a.session, Unlisted)
<1>1. PageTypes(ui) /\ PageAgrees(ui) /\ ui.pollStep > 0
  BY DEF Inv, PageInv, PollStepTimer
<1>2. /\ DOMAIN base = DOMAIN ui /\ SameRest(ui, base)
      /\ base.pollStep = ui.pollStep - 1 /\ base.pollSession = ui.pollSession
      /\ ControlTypes(base)
  BY <1>1 DEF PageTypes, PageFields, ControlTypes, SameRest, SameControl,
     SameTables,
     SameEditors, SameListing
<1>3. /\ DOMAIN a = DOMAIN base /\ SameRest(base, a)
      /\ a.pollSession = base.pollSession /\ a.pollStep = base.pollStep
      /\ a.pollTries = 0 /\ ControlTypes(a)
  BY <1>1, <1>2, WebUIAssumption DEF PageTypes, PageFields, ControlTypes,
     SameRest,
     SameControl, SameTables, SameEditors, SameListing
<1>4. u = PollStepState(base)
  BY DEF PollStepState
<1>5. Handled(base, u) /\ UNCHANGED <<server, single, excused>>
  BY <1>4 DEF PollStepTimer, Timer
<1> HIDE DEF base, a
<1>6. PageTypes(base) /\ PageAgrees(base)
  BY <1>1, <1>2, ControlFrame DEF SameRest
<1>7. PageTypes(a) /\ PageAgrees(a)
  BY <1>3, <1>6, ControlFrame DEF SameRest
<1>8. /\ PageTypes(u) /\ PageAgrees(u) /\ u.source = a.source
      /\ SamePolls(a, u) /\ SameControl(a, u) /\ Asks(a, u, r)
      /\ r.live /\ r.resp = NoAnswer /\ r.kind = "step-state" /\ r.sid = a.session
  BY <1>7, Posted DEF Kinds
<1> HIDE DEF u, r
<1>9. /\ base.requests = ui.requests /\ Asks(base, u, r)
      /\ u.pollSession = base.pollSession /\ u.pollStep = base.pollStep
      /\ u.source = ui.source /\ u.pollTries = 0
      /\ r.sid = u.session /\ u.session = ui.session
  BY <1>2, <1>3, <1>8 DEF SameRest, SameControl, SameEditors, SamePolls, Asks
<1>10. ASSUME NEW s \in Session, StepUnderWay(ui, s)
       PROVE  Busy(base) \/ StepUnderWay(u, s)
  <2>1. CASE s \in Named(ui.session)
    <3>1. r \in LiveIn(u)
      <4>1. Outstanding(u) = Outstanding(base) \union {r}
        BY <1>6, <1>9, AskedIsOutstanding
      <4> QED BY <1>8, <4>1 DEF LiveIn
    <3>2. r.resp.is # "error" /\ r.resp.is # "data"
      BY <1>8 DEF NoAnswer
    <3> QED BY <2>1, <3>1, <3>2, <1>8, <1>9 DEF StepUnderWay
  <2>2. CASE \E q \in LiveIn(ui) : TRUE
    BY <2>2, <1>9 DEF Busy, LiveIn, Outstanding
  <2> QED BY <1>10, <2>1, <2>2 DEF StepUnderWay
<1> QED BY <1>5, <1>6, <1>8, <1>9, <1>10, AskingHandler

(* A handler that posts without touching the timers of the polls.            *)
LEMMA PostingHandler ==
  ASSUME Inv, NEW base, PageTypes(base), PageAgrees(base),
         base.requests = ui.requests, base.source = ui.source,
         base.pollStep = ui.pollStep,
         NEW kind \in Kinds \ {"session-state", "step-state"}, NEW arg,
         kind = "breakpoint" =>
           /\ arg \in [set : BOOLEAN, byLine : BOOLEAN, at : Nat]
           /\ arg.byLine \/ arg.at \in Addresses \union {Unlisted},
         Handled(base, Send(base, kind, arg)), UNCHANGED <<server, single>>,
         ~excused' => ~excused
  PROVE  Inv'
<1> DEFINE u == Send(base, kind, arg)
           r == Request(kind, base.session, arg)
<1>1. /\ PageTypes(u) /\ PageAgrees(u) /\ u.source = base.source
      /\ SamePolls(base, u) /\ SameControl(base, u) /\ Asks(base, u, r)
      /\ r.live /\ r.resp = NoAnswer /\ r.kind = kind /\ r.sid = base.session
  BY Posted
<1>2. Handled(base, u)
  OBVIOUS
<1> HIDE DEF u, r
<1>3. /\ u.pollSession = base.pollSession /\ u.pollStep = base.pollStep
      /\ u.source = ui.source /\ r.sid = u.session
      /\ r.kind # "session-state" /\ r.kind # "step-state"
  BY <1>1 DEF SamePolls, SameControl
<1>4. PageTypes(ui)
  BY DEF Inv, PageInv
<1>5. ASSUME NEW s \in Session, StepUnderWay(ui, s)
      PROVE  Busy(base)
  BY <1>5 DEF StepUnderWay, Busy, LiveIn, Outstanding
<1> QED BY <1>1, <1>2, <1>3, <1>5, AskingHandler

(* The timer of the automatic steps.                                         *)
LEMMA AutoStepTimerKeeps == ASSUME Inv, AutoStepTimer PROVE Inv'
<1>1. PageTypes(ui) /\ PageAgrees(ui)
  BY DEF Inv, PageInv
<1>2. ASSUME NEW base, DOMAIN base = DOMAIN ui, SameRest(ui, base), SamePolls(ui, base),
             ControlTypes(base), Timer(base, StepAction(base, "instruction"))
      PROVE  Inv'
  <2>1. PageTypes(base) /\ PageAgrees(base)
    BY <1>1, <1>2, ControlFrame DEF SameRest
  <2>2. /\ Handled(base, Send(base, "step", "instruction"))
        /\ UNCHANGED <<server, single, excused>>
    BY <1>2 DEF Timer, StepAction
  <2>3. /\ base.requests = ui.requests /\ base.source = ui.source
        /\ base.pollStep = ui.pollStep
    BY <1>2 DEF SameRest, SameEditors, SamePolls
  <2>4. "step" \in Kinds \ {"session-state", "step-state"}
    BY DEF Kinds
  <2> QED BY <2>1, <2>2, <2>3, <2>4, PostingHandler
<1>3. CASE ui.autoTimer /\ LET base == [ui EXCEPT !.autoTimer = FALSE] IN
             Timer(base, StepAction(base, "instruction"))
  <2> DEFINE base == [ui EXCEPT !.autoTimer = FALSE]
  <2>1. /\ DOMAIN base = DOMAIN ui /\ SameRest(ui, base) /\ SamePolls(ui, base)
        /\ ControlTypes(base)
    BY <1>1 DEF PageTypes, PageFields, ControlTypes, SameRest, SameControl,
       SameTables,
       SameEditors, SameListing, SamePolls
  <2>2. Timer(base, StepAction(base, "instruction"))
    BY <1>3
  <2> HIDE DEF base
  <2> QED BY <2>1, <2>2, <1>2
<1>4. CASE ui.strayTimers > 0 /\ LET base == [ui EXCEPT !.strayTimers = @ - 1] IN
             Timer(base, StepAction(base, "instruction"))
  <2> DEFINE base == [ui EXCEPT !.strayTimers = @ - 1]
  <2>1. /\ DOMAIN base = DOMAIN ui /\ SameRest(ui, base) /\ SamePolls(ui, base)
        /\ ControlTypes(base)
    BY <1>1, <1>4 DEF PageTypes, PageFields, ControlTypes, SameRest,
       SameControl,
       SameTables, SameEditors, SameListing, SamePolls
  <2>2. Timer(base, StepAction(base, "instruction"))
    BY <1>4
  <2> HIDE DEF base
  <2> QED BY <2>1, <2>2, <1>2
<1> QED BY <1>3, <1>4 DEF AutoStepTimer

(* The file was read: it is posted.                                          *)
LEMMA FileReadKeeps == ASSUME Inv, FileRead PROVE Inv'
<1> DEFINE base == [ui EXCEPT !.reading = FALSE]
<1>1. PageTypes(ui) /\ PageAgrees(ui)
  BY DEF Inv, PageInv
<1>2. /\ DOMAIN base = DOMAIN ui /\ SameRest(ui, base)
      /\ base.pollStep = ui.pollStep /\ ControlTypes(base)
  BY <1>1 DEF PageTypes, PageFields, ControlTypes, SameRest, SameControl,
     SameTables,
     SameEditors, SameListing
<1>3. /\ Handled(base, Send(base, "upload", Unlisted))
      /\ UNCHANGED <<server, single, excused>>
  BY DEF FileRead, Timer
<1> HIDE DEF base
<1>4. PageTypes(base) /\ PageAgrees(base)
  BY <1>1, <1>2, ControlFrame DEF SameRest
<1>5. base.requests = ui.requests /\ base.source = ui.source
  BY <1>2 DEF SameRest, SameEditors
<1>6. "upload" \in Kinds \ {"session-state", "step-state"} /\ "upload" # "breakpoint"
  BY DEF Kinds
<1> QED BY <1>2, <1>3, <1>4, <1>5, <1>6, PostingHandler

(* The example's text is a text.                                             *)
LEMMA LoadCodePage ==
  ASSUME NEW u, PageTypes(u), PageAgrees(u)
  PROVE  LET v == LoadCode(u) IN
         /\ PageTypes(v) /\ PageAgrees(v) /\ Dark(v.source)
         /\ SameControl(u, v) /\ SameExchange(u, v) /\ SameTables(u, v)
<1> DEFINE text == <<0, 0>>
           v == LoadCode(u)
<1>1. text \in Seq(LineNumbers \union {0}) /\ text # <<>>
  OBVIOUS
<1>2. v = SetLanguageAndText(u, text)
  BY DEF LoadCode
<1> HIDE DEF text, v
<1>3. /\ OnlyEditors(u, v) /\ SameListing(u, v) /\ EditorsAgree(v)
      /\ v.compiled = u.compiled /\ Dark(v.source)
  BY <1>1, <1>2, SetTextPage DEF PageAgrees
<1> QED BY <1>3, PagesAlike DEF OnlyEditors, PageAgrees, v

(* startApp asks for the state of the session the address names.             *)
LEMMA StartAppKeeps == ASSUME Inv, StartApp PROVE Inv'
<1> DEFINE c == ChangeState(ui, "IDLE")
           a == [[c EXCEPT !.session = ui.hash] EXCEPT !.pollTries = 0]
           again == FALSE
           w == Send(a, "session-state", again)
           r == Request("session-state", a.session, again)
           u == LoadCode(w)
<1>1. PageTypes(ui) /\ PageAgrees(ui)
  BY DEF Inv, PageInv
<1>2. Handled(ui, u) /\ UNCHANGED <<server, single, excused>>
  BY DEF StartApp, Timer, PollSessionState
<1>3. /\ PageTypes(c) /\ SameExchange(ui, c) /\ SameTables(ui, c) /\ EditorsAgree(c)
      /\ Dark(c.compiled)
  BY <1>1, ChangeStatePage DEF PageAgrees
<1> HIDE DEF c
<1>4. PageAgrees(c)
  BY <1>1, <1>3, PagesAlike DEF PageAgrees, Dark, OneLit
<1>5. /\ DOMAIN a = DOMAIN c /\ SameTables(c, a) /\ SameEditors(c, a)
      /\ a.requests = c.requests /\ ControlTypes(a)
      /\ a.pollSession = c.pollSession /\ a.pollStep = c.pollStep
  BY <1>1, <1>3, WebUIAssumption DEF PageTypes, PageFields, ControlTypes,
     SameTables, SameEditors, SameListing
<1> HIDE DEF a, again
<1>6. PageTypes(a) /\ PageAgrees(a)
  BY <1>3, <1>4, <1>5, ControlFrame
<1>7. /\ PageTypes(w) /\ PageAgrees(w) /\ SamePolls(a, w) /\ Asks(a, w, r)
      /\ r.live /\ r.resp = NoAnswer /\ r.kind = "session-state"
  BY <1>6, Posted DEF Kinds
<1> HIDE DEF w, r
<1>8. /\ PageTypes(u) /\ PageAgrees(u) /\ Dark(u.source) /\ SameExchange(w, u)
  BY <1>7, LoadCodePage
<1> HIDE DEF u
<1>9. /\ Asks(ui, u, r) /\ u.pollSession = ui.pollSession /\ u.pollStep = ui.pollStep
      /\ OneLit(u.source)
  BY <1>3, <1>5, <1>7, <1>8 DEF SameExchange, SamePolls, Asks, Dark, OneLit
<1>10. ASSUME NEW s \in Session, StepUnderWay(ui, s)
       PROVE  Busy(ui)
  BY <1>1, <1>10 DEF StepUnderWay, Busy, LiveIn, Outstanding
<1>11. r.kind = "session-state" =>
         Dark(u.source) \/ (AwaitsSession(ui) /\ u.source = ui.source)
  BY <1>8
<1>12. UNCHANGED <<server, single>> /\ (~excused' => ~excused)
  BY <1>2
<1>13. \A s \in Session : StepUnderWay(ui, s) => Busy(ui) \/ StepUnderWay(u, s)
  BY <1>10
<1> QED BY <1>1, <1>2, <1>7, <1>8, <1>9, <1>11, <1>12, <1>13, AskingHandler

(* A table in a popup that is open.                                          *)
LEMMA OpenPopupTable ==
  ASSUME NEW u, PageTypes(u), u.popup = "open", NEW t \in Tables
  PROVE  LET v == UpdateTable(u, t) IN
         /\ OnlyTables(u, v) /\ v.last = u.last
         /\ t # "stack" /\ u.last[t] = NoData =>
              v.threw /\ v.main = u.main /\ v.window = u.window
         /\ t = "stack" \/ u.last[t] # NoData =>
              /\ v.threw = u.threw
              /\ v.main = [u.main EXCEPT ![t] = u.last[t]]
              /\ v.window = [u.window EXCEPT ![t] = u.last[t]]
<1>1. u.popup # "loading"
  OBVIOUS
<1> QED BY <1>1, UpdateTablePage

(* The popup that has loaded gets all tables, or none that is shown.         *)
LEMMA PopupFilled ==
  ASSUME NEW a, PageTypes(a), a.popup = "open", ~a.threw,
         \A t \in Tables : a.window[t] = NoData,
         a.last["vars"] # NoData => a.last["regs"] # NoData,
         \A t \in Tables : a.main[t] # NoData => a.last[t] # NoData,
         NEW b, b = UpdateTable(a, "regs"),
         NEW c, c = IF b.threw THEN b ELSE UpdateTable(b, "vars"),
         NEW d, d = IF c.threw THEN c ELSE UpdateTable(c, "stack")
  PROVE  OnlyTables(a, d) /\ Mirrored(d)
<1>3. "regs" \in Tables /\ "vars" \in Tables /\ "stack" \in Tables
  BY DEF Tables
<1>4. /\ a.last \in [Tables -> Data] /\ a.main \in [Tables -> Data]
      /\ a.window \in [Tables -> Data]
  BY DEF PageTypes, TableTypes
<1>6. /\ OnlyTables(a, b) /\ b.last = a.last
      /\ a.last["regs"] = NoData => b.threw /\ b.main = a.main /\ b.window = a.window
      /\ a.last["regs"] # NoData =>
           /\ b.threw = a.threw
           /\ b.main = [a.main EXCEPT !["regs"] = a.last["regs"]]
           /\ b.window = [a.window EXCEPT !["regs"] = a.last["regs"]]
  <2> DEFINE t == "regs"
  <2>1. t \in Tables /\ t # "stack" /\ b = UpdateTable(a, t)
    BY <1>3
  <2>2. /\ OnlyTables(a, b) /\ b.last = a.last
        /\ a.last[t] = NoData => b.threw /\ b.main = a.main /\ b.window = a.window
        /\ a.last[t] # NoData =>
             /\ b.threw = a.threw
             /\ b.main = [a.main EXCEPT ![t] = a.last[t]]
             /\ b.window = [a.window EXCEPT ![t] = a.last[t]]
    <3> HIDE DEF t
    <3> QED BY <2>1, OpenPopupTable
  <2> QED BY <2>2
<1>7. PageTypes(b) /\ b.popup = "open"
  BY <1>6 DEF OnlyTables
<1>8. CASE a.last["regs"] = NoData
  <2>1. b.threw /\ c = b /\ d = b /\ b.main = a.main /\ b.window = a.window
    BY <1>6, <1>8
  <2>2. a.last["vars"] = NoData /\ a.main["regs"] = NoData /\ a.main["vars"] = NoData
    BY <1>3, <1>8
  <2>3. Mirrored(d)
    BY <2>1, <2>2, <1>3, <1>6, <1>7 DEF Mirrored
  <2> QED BY <2>1, <2>3, <1>6
<1>9. CASE a.last["regs"] # NoData
  <2>1. ~b.threw /\ c = UpdateTable(b, "vars")
    BY <1>6, <1>9
  <2>2. /\ OnlyTables(b, c) /\ c.last = b.last
        /\ b.last["vars"] = NoData => c.threw /\ c.main = b.main /\ c.window = b.window
        /\ b.last["vars"] # NoData =>
             /\ c.threw = b.threw
             /\ c.main = [b.main EXCEPT !["vars"] = b.last["vars"]]
             /\ c.window = [b.window EXCEPT !["vars"] = b.last["vars"]]
    <3> DEFINE t == "vars"
    <3>1. t \in Tables /\ t # "stack" /\ c = UpdateTable(b, t)
      BY <1>3, <2>1
    <3>2. /\ OnlyTables(b, c) /\ c.last = b.last
          /\ b.last[t] = NoData => c.threw /\ c.main = b.main /\ c.window = b.window
          /\ b.last[t] # NoData =>
               /\ c.threw = b.threw
               /\ c.main = [b.main EXCEPT ![t] = b.last[t]]
               /\ c.window = [b.window EXCEPT ![t] = b.last[t]]
      <4> HIDE DEF t
      <4> QED BY <1>7, <3>1, OpenPopupTable
    <3> QED BY <3>2
  <2>3. PageTypes(c) /\ c.popup = "open"
    BY <1>7, <2>2 DEF OnlyTables
  <2>4. /\ b.main["regs"] = a.last["regs"] /\ b.window["regs"] = a.last["regs"]
        /\ b.main["vars"] = a.main["vars"] /\ b.window["vars"] = NoData
        /\ b.main["stack"] = a.main["stack"] /\ b.window["stack"] = NoData
    BY <1>3, <1>4, <1>6, <1>9
  <2>5. /\ b.main \in [Tables -> Data] /\ b.window \in [Tables -> Data]
        /\ c.main \in [Tables -> Data] /\ c.window \in [Tables -> Data]
    BY <1>7, <2>3 DEF PageTypes, TableTypes
  <2>6. CASE a.last["vars"] = NoData
    <3>1. c.threw /\ d = c /\ c.main = b.main /\ c.window = b.window /\ c.last = a.last
      BY <1>6, <2>2, <2>6
    <3>2. a.main["vars"] = NoData
      BY <1>3, <2>6
    <3>3. Mirrored(d)
      BY <3>1, <3>2, <2>3, <2>4, <2>6, <1>9 DEF Mirrored, Tables
    <3> QED BY <3>1, <3>3, <1>6, <2>2, OnlyTablesChains
  <2>7. CASE a.last["vars"] # NoData
    <3>1. ~c.threw /\ d = UpdateTable(c, "stack") /\ c.last = a.last
      BY <1>6, <2>1, <2>2, <2>7
    <3>2. /\ OnlyTables(c, d) /\ d.last = c.last
          /\ d.main = [c.main EXCEPT !["stack"] = c.last["stack"]]
          /\ d.window = [c.window EXCEPT !["stack"] = c.last["stack"]]
      <4>1. c.popup # "loading"
        BY <2>3
      <4> QED BY <4>1, <3>1, <2>3, <1>3, UpdateTablePage
    <3>3. d.popup = "open"
      BY <2>3, <3>2 DEF OnlyTables
    <3>4. /\ c.main["regs"] = a.last["regs"] /\ c.window["regs"] = a.last["regs"]
          /\ c.main["vars"] = a.last["vars"] /\ c.window["vars"] = a.last["vars"]
          /\ c.main["stack"] = a.main["stack"]
      BY <1>3, <1>6, <2>2, <2>4, <2>5, <2>7
    <3>5. /\ d.main["regs"] = a.last["regs"] /\ d.window["regs"] = a.last["regs"]
          /\ d.main["vars"] = a.last["vars"] /\ d.window["vars"] = a.last["vars"]
          /\ d.main["stack"] = a.last["stack"] /\ d.window["stack"] = a.last["stack"]
      BY <1>3, <2>5, <3>1, <3>2, <3>4
    <3>6. Mirrored(d)
      BY <3>1, <3>2, <3>3, <3>5, <1>9, <2>7 DEF Mirrored, Tables
    <3>7. OnlyTables(a, d)
      BY <1>6, <2>2, <3>2, OnlyTablesChains
    <3> QED BY <3>6, <3>7
  <2> QED BY <2>6, <2>7
<1> QED BY <1>8, <1>9

(* The popup's onload.                                                       *)
LEMMA PopupLoadedKeeps == ASSUME Inv, PopupLoaded PROVE Inv'
<1> DEFINE a == [ui EXCEPT !.popup = "open"]
           b == UpdateTable(a, "regs")
           c == IF b.threw THEN b ELSE UpdateTable(b, "vars")
           d == IF c.threw THEN c ELSE UpdateTable(c, "stack")
<1>1. PageTypes(ui) /\ PageAgrees(ui) /\ ~ui.threw /\ ui.popup = "loading"
  BY DEF Inv, PageInv, PopupLoaded
<1>2. Handled(a, d) /\ UNCHANGED <<server, single, excused>>
  BY DEF PopupLoaded, Timer, Then
<1>3. /\ DOMAIN a = DOMAIN ui /\ SameControl(ui, a) /\ SameExchange(ui, a)
      /\ SameEditors(ui, a) /\ a.last = ui.last /\ a.main = ui.main
      /\ a.window = ui.window /\ a.popup = "open" /\ a.threw = ui.threw
  BY <1>1 DEF PageTypes, PageFields, SameControl, SameExchange, SameEditors,
     SameListing
<1> HIDE DEF a
<1>4. OnlyTables(a, d) /\ Mirrored(d)
  <2>1. PageTypes(a)
    BY <1>1, <1>3 DEF PageTypes, ControlTypes, EditorTypes, TableTypes,
       RequestTypes,
       Outstanding, SameControl, SameExchange, SameEditors, SameListing
  <2>2. /\ \A t \in Tables : a.window[t] = NoData
        /\ a.last["vars"] # NoData => a.last["regs"] # NoData
        /\ \A t \in Tables : a.main[t] # NoData => a.last[t] # NoData
    BY <1>1, <1>3 DEF PageAgrees, Mirrored
  <2>3. /\ b = UpdateTable(a, "regs")
        /\ c = IF b.threw THEN b ELSE UpdateTable(b, "vars")
        /\ d = IF c.threw THEN c ELSE UpdateTable(c, "stack")
    BY DEF b, c, d
  <2> HIDE DEF b, c, d
  <2> QED BY <1>1, <1>3, <2>1, <2>2, <2>3, PopupFilled
<1> HIDE DEF a, b, c, d
<1>5. PageTypes(d) /\ SameControl(ui, d) /\ SameExchange(ui, d) /\ SameEditors(ui, d)
  BY <1>3, <1>4 DEF OnlyTables, SameControl, SameExchange, SameEditors,
     SameListing
<1>6. PageAgrees(d)
  BY <1>1, <1>4, <1>5, PagesAlike DEF PageAgrees, SameEditors
<1>7. /\ d.requests = ui.requests /\ d.session = ui.session
      /\ d.pollSession = ui.pollSession /\ d.pollStep = ui.pollStep
      /\ d.pollTries = ui.pollTries /\ d.source = ui.source
  BY <1>5 DEF SameControl, SameExchange, SameEditors
<1> QED BY <1>2, <1>5, <1>6, <1>7, QuietHandler

-----------------------------------------------------------------------------
(* The events of the user *)

(* A click whose handler posts and changes nothing else.                     *)
LEMMA ClickPosts ==
  ASSUME Inv, NEW kind \in Kinds \ {"session-state", "step-state"}, NEW arg,
         kind = "breakpoint" =>
           /\ arg \in [set : BOOLEAN, byLine : BOOLEAN, at : Nat]
           /\ arg.byLine \/ arg.at \in Addresses \union {Unlisted},
         NEW feature, Click(feature, Send(ui, kind, arg))
  PROVE  Inv'
<1>1. PageTypes(ui) /\ PageAgrees(ui)
  BY DEF Inv, PageInv
<1>2. Handled(ui, Send(ui, kind, arg)) /\ UNCHANGED <<server, single, excused>>
  BY DEF Click, Event
<1>3. ui.requests = ui.requests /\ ui.source = ui.source /\ ui.pollStep = ui.pollStep
  OBVIOUS
<1> QED BY <1>1, <1>2, <1>3, PostingHandler

(* The play button compiles, or steps.                                       *)
LEMMA PlayClickKeeps == ASSUME Inv, PlayClick PROVE Inv'
<1>1. CASE Click("play", CompileAction(ui))
  <2>1. "compile" \in Kinds \ {"session-state", "step-state"} /\ "compile" # "breakpoint"
    BY DEF Kinds
  <2>2. Click("play", Send(ui, "compile", Unlisted))
    BY <1>1 DEF CompileAction
  <2> QED BY <2>1, <2>2, ClickPosts
<1>2. CASE Click("play", StepAction(ui, "instruction"))
  <2>1. "step" \in Kinds \ {"session-state", "step-state"} /\ "step" # "breakpoint"
    BY DEF Kinds
  <2>2. Click("play", Send(ui, "step", "instruction"))
    BY <1>2 DEF StepAction
  <2> QED BY <2>1, <2>2, ClickPosts
<1> QED BY <1>1, <1>2 DEF PlayClick

(* The buttons that step by a line or continue.                              *)
LEMMA FwdClickKeeps == ASSUME Inv, FwdClick PROVE Inv'
<1>1. PICK step \in {"line", "continue"} : Click("skip", StepAction(ui, step))
  BY DEF FwdClick
<1>2. Click("skip", Send(ui, "step", step))
  BY <1>1 DEF StepAction
<1>3. "step" \in Kinds \ {"session-state", "step-state"} /\ "step" # "breakpoint"
  BY DEF Kinds
<1> QED BY <1>2, <1>3, ClickPosts

(* What the gutter shows is an address.                                      *)
LEMMA FormatterTypes ==
  ASSUME NEW u, PageTypes(u), NEW i \in Nat \ {0}
  PROVE  Formatter(u, i) \in Nat /\ Formatter(u, i) \in Addresses \union {Unlisted}
<1>1. /\ u.lineNumbers \in Seq(Addresses \union {-1})
      /\ Addresses \subseteq Nat \ {0}
  <2>1. <<>> \in {<<>>, NoProgram.listing} \union {p.listing : p \in Programs}
    OBVIOUS
  <2> QED BY <2>1, ListingTypes DEF PageTypes, EditorTypes
<1>2. CASE i > Len(u.lineNumbers)
  BY <1>2 DEF Formatter, Unlisted
<1>3. CASE ~(i > Len(u.lineNumbers))
  <2>1. u.lineNumbers[i] \in Addresses \union {-1}
    BY <1>1, <1>3
  <2>2. CASE u.lineNumbers[i] < 0
    BY <1>3, <2>2 DEF Formatter, Unlisted
  <2>3. CASE ~(u.lineNumbers[i] < 0)
    <3>1. u.lineNumbers[i] # -1
      BY <2>3
    <3>2. u.lineNumbers[i] \in Addresses /\ u.lineNumbers[i] \in Nat
      BY <1>1, <2>1, <3>1
    <3> QED BY <1>3, <2>3, <3>2 DEF Formatter
  <2> QED BY <2>2, <2>3
<1> QED BY <1>2, <1>3

(* A click on a gutter asks for a breakpoint at a line or an address.        *)
LEMMA GutterClickKeeps == ASSUME Inv, GutterClick PROVE Inv'
<1>1. "breakpoint" \in Kinds \ {"session-state", "step-state"}
  BY DEF Kinds
<1>2. /\ PageTypes(ui) /\ ui.source \in SourceDocs /\ ui.compiled \in CompiledDocs
  BY PageDocs DEF Inv, PageInv
<1>3. ASSUME NEW nums, NEW d \in Docs(nums), NEW i \in DOMAIN d
      PROVE  i \in Nat \ {0} /\ HasMarker(d, i - 1) \in BOOLEAN
  <2>1. i \in Nat \ {0} /\ d[i] \in LineType(nums)
    BY <1>3 DEF Docs
  <2>2. (i - 1) + 1 = i
    BY <2>1
  <2> QED BY <2>1, <2>2, LineFields DEF HasMarker
<1>4. CASE \E i \in DOMAIN ui.source :
             Click("gutter", Send(ui, "breakpoint",
               [set |-> ~HasMarker(ui.source, i - 1), byLine |-> TRUE, at |-> i]))
  <2>1. PICK i \in DOMAIN ui.source :
          Click("gutter", Send(ui, "breakpoint",
            [set |-> ~HasMarker(ui.source, i - 1), byLine |-> TRUE, at |-> i]))
    BY <1>4
  <2> DEFINE arg == [set |-> ~HasMarker(ui.source, i - 1), byLine |-> TRUE, at |-> i]
  <2>2. i \in Nat
    BY <1>2, <1>3 DEF SourceDocs
  <2>3. arg \in [set : BOOLEAN, byLine : BOOLEAN, at : Nat] /\ arg.byLine
    BY <2>2
  <2>4. Click("gutter", Send(ui, "breakpoint", arg))
    BY <2>1
  <2> HIDE DEF arg
  <2> QED BY <1>1, <2>3, <2>4, ClickPosts
<1>5. CASE \E i \in DOMAIN ui.compiled :
             Click("gutter", Send(ui, "breakpoint",
               [set |-> ~HasMarker(ui.compiled, i - 1), byLine |-> FALSE,
                at |-> Formatter(ui, i)]))
  <2>1. PICK i \in DOMAIN ui.compiled :
          Click("gutter", Send(ui, "breakpoint",
            [set |-> ~HasMarker(ui.compiled, i - 1), byLine |-> FALSE,
             at |-> Formatter(ui, i)]))
    BY <1>5
  <2> DEFINE arg == [set |-> ~HasMarker(ui.compiled, i - 1), byLine |-> FALSE,
                     at |-> Formatter(ui, i)]
  <2>2. i \in Nat \ {0}
    BY <1>2, <1>3 DEF CompiledDocs
  <2>3. Formatter(ui, i) \in Nat /\ Formatter(ui, i) \in Addresses \union {Unlisted}
    BY <1>2, <2>2, FormatterTypes
  <2>4. /\ arg \in [set : BOOLEAN, byLine : BOOLEAN, at : Nat]
        /\ arg.at \in Addresses \union {Unlisted}
    BY <2>3
  <2>5. Click("gutter", Send(ui, "breakpoint", arg))
    BY <2>1
  <2> HIDE DEF arg
  <2> QED BY <1>1, <2>4, <2>5, ClickPosts
<1> QED BY <1>4, <1>5 DEF GutterClick

(* A handler that posts after a change of the page that is not the           *)
(* exchange's, or changes it so afterwards.                                  *)
LEMMA PostingClick ==
  ASSUME Inv, NEW u, PageTypes(u), PageAgrees(u), NEW r, Asks(ui, u, r), r.live,
         r.resp = NoAnswer, r.kind \in Kinds \ {"session-state", "step-state"},
         r.kind = "step" => r.sid = u.session,
         u.pollSession = ui.pollSession, u.pollStep = ui.pollStep,
         u.source = ui.source,
         NEW feature, Event(feature, u), ~excused' => ~excused
  PROVE  Inv'
<1>1. PageTypes(ui)
  BY DEF Inv, PageInv
<1>2. Handled(ui, u) /\ UNCHANGED <<server, single>>
  BY DEF Event
<1>3. /\ r.kind \in {"step", "step-state"} => r.sid = u.session
      /\ r.kind # "step-state" /\ r.kind # "session-state"
      /\ OneLit(ui.source) => OneLit(u.source)
      /\ ui.requests = ui.requests
  OBVIOUS
<1>4. ASSUME NEW s \in Session, StepUnderWay(ui, s)
      PROVE  Busy(ui)
  BY <1>1, <1>4 DEF StepUnderWay, Busy, LiveIn, Outstanding
<1> QED BY <1>1, <1>2, <1>3, <1>4, AskingHandler

(* The stop button.                                                          *)
LEMMA StopClickKeeps == ASSUME Inv, StopClick PROVE Inv'
<1> DEFINE u == StopAction(ui)
           r == Request("stop", ui.session, Unlisted)
<1>1. PageTypes(ui) /\ PageAgrees(ui)
  BY DEF Inv, PageInv
<1>2. /\ PageTypes(u) /\ SameTables(ui, u) /\ SameEditors(ui, u)
      /\ SamePolls(ui, u) /\ Asks(ui, u, r)
  BY <1>1, StopActionPage
<1>3. Event("stop", u) /\ (~excused' => ~excused)
  BY DEF StopClick, Click
<1>4. /\ r.live /\ r.resp = NoAnswer /\ r.kind = "stop"
      /\ r.kind \in Kinds \ {"session-state", "step-state"}
  BY DEF Request, Kinds
<1> HIDE DEF u, r
<1>5. PageAgrees(u) /\ u.source = ui.source
  BY <1>1, <1>2, PagesAlike DEF PageAgrees, SameEditors
<1> QED BY <1>2, <1>3, <1>4, <1>5, PostingClick DEF SamePolls

(* A handler that asks for nothing.                                          *)
LEMMA QuietClick ==
  ASSUME Inv, NEW u, PageTypes(u), PageAgrees(u), u.requests = ui.requests,
         u.session = ui.session, u.pollSession = ui.pollSession,
         u.pollStep = ui.pollStep, u.pollTries = ui.pollTries,
         OneLit(ui.source) => OneLit(u.source), Dark(ui.source) => Dark(u.source),
         NEW feature, Click(feature, u)
  PROVE  Inv'
<1>1. Handled(ui, u) /\ UNCHANGED <<server, single, excused>>
  BY DEF Click, Event
<1> QED BY <1>1, QuietHandler

(* The loop button steps once and goes on with every answer, or ends that.   *)
LEMMA LoopClickKeeps == ASSUME Inv, LoopClick PROVE Inv'
<1>1. PageTypes(ui) /\ PageAgrees(ui)
  BY DEF Inv, PageInv
<1>2. CASE Click("loop", [ui EXCEPT !.autoStep = FALSE])
  <2> DEFINE u == [ui EXCEPT !.autoStep = FALSE]
  <2>1. /\ DOMAIN u = DOMAIN ui /\ ControlTypes(u) /\ SameTables(ui, u)
        /\ SameEditors(ui, u) /\ SameExchange(ui, u) /\ u.session = ui.session
    BY <1>1 DEF PageTypes, PageFields, ControlTypes, SameTables, SameEditors,
       SameListing, SameExchange
  <2>2. Click("loop", u)
    BY <1>2
  <2> HIDE DEF u
  <2>3. /\ u.requests = ui.requests /\ u.pollSession = ui.pollSession
        /\ u.pollStep = ui.pollStep /\ u.pollTries = ui.pollTries
        /\ u.source = ui.source
    BY <2>1 DEF SameExchange, SameEditors
  <2>4. PageTypes(u) /\ PageAgrees(u)
    BY <1>1, <2>1, <2>3, ControlFrame
  <2> QED BY <2>1, <2>2, <2>3, <2>4, QuietClick
<1>3. CASE /\ Event("loop", [StepAction(ui, "instruction") EXCEPT !.autoStep = TRUE])
           /\ excused' = (excused \/ ui.state # "DEBUG")
  <2> DEFINE v == Send(ui, "step", "instruction")
             r == Request("step", ui.session, "instruction")
             u == [v EXCEPT !.autoStep = TRUE]
  <2>1. Event("loop", u) /\ (~excused' => ~excused)
    BY <1>3 DEF StepAction
  <2>2. /\ PageTypes(v) /\ PageAgrees(v) /\ v.source = ui.source
        /\ SamePolls(ui, v) /\ SameControl(ui, v) /\ Asks(ui, v, r)
        /\ r.live /\ r.resp = NoAnswer /\ r.kind = "step" /\ r.sid = ui.session
    BY <1>1, Posted DEF Kinds
  <2> HIDE DEF v, r
  <2>3. /\ DOMAIN u = DOMAIN v /\ ControlTypes(u) /\ SameTables(v, u)
        /\ SameEditors(v, u) /\ SameExchange(v, u) /\ u.session = v.session
    BY <2>2 DEF PageTypes, PageFields, ControlTypes, SameTables, SameEditors,
       SameListing, SameExchange
  <2> HIDE DEF u
  <2>4. PageTypes(u) /\ PageAgrees(u)
    BY <2>2, <2>3, ControlFrame DEF SameExchange
  <2>5. /\ Asks(ui, u, r) /\ u.pollSession = ui.pollSession
        /\ u.pollStep = ui.pollStep /\ u.source = ui.source /\ r.sid = u.session
    BY <2>2, <2>3 DEF Asks, SameExchange, SamePolls, SameEditors, SameControl
  <2>6. r.kind \in Kinds \ {"session-state", "step-state"}
    BY <2>2 DEF Kinds
  <2> QED BY <2>1, <2>2, <2>4, <2>5, <2>6, PostingClick
<1> QED BY <1>2, <1>3 DEF LoopClick

(* The input of the program is posted without the session's name.            *)
LEMMA StdinEnterKeeps == ASSUME Inv, StdinEnter PROVE Inv'
<1> DEFINE a == [ui EXCEPT !.session = NoName]
           v == Send(a, "stdin", Unlisted)
           r == Request("stdin", a.session, Unlisted)
           u == [v EXCEPT !.session = ui.session]
<1>1. PageTypes(ui) /\ PageAgrees(ui)
  BY DEF Inv, PageInv
<1>2. Event("stdin", u) /\ (~excused' => ~excused)
  BY DEF StdinEnter, Click
<1>3. /\ DOMAIN a = DOMAIN ui /\ ControlTypes(a) /\ SameTables(ui, a)
      /\ SameEditors(ui, a) /\ SameExchange(ui, a)
  BY <1>1 DEF PageTypes, PageFields, ControlTypes, SameTables, SameEditors,
     SameListing, SameExchange
<1> HIDE DEF a
<1>4. PageTypes(a) /\ PageAgrees(a)
  BY <1>1, <1>3, ControlFrame DEF SameExchange
<1>5. /\ PageTypes(v) /\ PageAgrees(v) /\ v.source = a.source
      /\ SamePolls(a, v) /\ SameControl(a, v) /\ Asks(a, v, r)
      /\ r.live /\ r.resp = NoAnswer /\ r.kind = "stdin"
  BY <1>4, Posted DEF Kinds
<1> HIDE DEF v, r
<1>6. /\ DOMAIN u = DOMAIN v /\ ControlTypes(u) /\ SameTables(v, u)
      /\ SameEditors(v, u) /\ SameExchange(v, u)
  BY <1>1, <1>5 DEF PageTypes, PageFields, ControlTypes, SameTables,
     SameEditors,
     SameListing, SameExchange
<1> HIDE DEF u
<1>7. PageTypes(u) /\ PageAgrees(u)
  BY <1>5, <1>6, ControlFrame DEF SameExchange
<1>8. /\ Asks(ui, u, r) /\ u.pollSession = ui.pollSession
      /\ u.pollStep = ui.pollStep /\ u.source = ui.source
  BY <1>3, <1>5, <1>6 DEF Asks, SameExchange, SamePolls, SameEditors
<1>9. r.kind \in Kinds \ {"session-state", "step-state"} /\ r.kind # "step"
  BY <1>5 DEF Kinds
<1> QED BY <1>2, <1>5, <1>7, <1>8, <1>9, PostingClick

(* The choice of a file.                                                     *)
LEMMA UploadClickKeeps == ASSUME Inv, UploadClick PROVE Inv'
<1> DEFINE u == [ui EXCEPT !.reading = TRUE]
<1>1. PageTypes(ui) /\ PageAgrees(ui)
  BY DEF Inv, PageInv
<1>2. Click("upload", u)
  BY DEF UploadClick
<1>3. /\ DOMAIN u = DOMAIN ui /\ ControlTypes(u) /\ SameTables(ui, u)
      /\ SameEditors(ui, u) /\ SameRest(ui, u) /\ u.pollSession = ui.pollSession
      /\ u.pollStep = ui.pollStep /\ u.pollTries = ui.pollTries
  BY <1>1 DEF PageTypes, PageFields, ControlTypes, SameTables, SameEditors,
     SameListing, SameRest, SameControl
<1> HIDE DEF u
<1>4. u.requests = ui.requests /\ u.session = ui.session /\ u.source = ui.source
  BY <1>3 DEF SameRest, SameControl, SameEditors
<1>5. PageTypes(u) /\ PageAgrees(u)
  BY <1>1, <1>3, <1>4, ControlFrame
<1> QED BY <1>2, <1>3, <1>4, <1>5, QuietClick

(* The choice of an example.                                                 *)
LEMMA ExampleClickKeeps == ASSUME Inv, ExampleClick PROVE Inv'
<1> DEFINE u == LoadCode(ui)
<1>1. PageTypes(ui) /\ PageAgrees(ui)
  BY DEF Inv, PageInv
<1>2. Click("example", u)
  BY DEF ExampleClick
<1>3. /\ PageTypes(u) /\ PageAgrees(u) /\ Dark(u.source)
      /\ SameControl(ui, u) /\ SameExchange(ui, u)
  BY <1>1, LoadCodePage
<1> HIDE DEF u
<1>4. /\ u.requests = ui.requests /\ u.session = ui.session
      /\ u.pollSession = ui.pollSession /\ u.pollStep = ui.pollStep
      /\ u.pollTries = ui.pollTries /\ OneLit(u.source)
  BY <1>3 DEF SameControl, SameExchange, Dark, OneLit
<1> QED BY <1>2, <1>3, <1>4, QuietClick

(* An edit of the source moves highlights and adds none.                     *)
LEMMA EditKeeps == ASSUME Inv, Edit PROVE Inv'
<1>1. PageTypes(ui) /\ PageAgrees(ui) /\ ui.source \in SourceDocs
  BY PageDocs DEF Inv, PageInv
<1>2. ASSUME NEW doc \in SourceDocs, Held(doc),
             Dark(ui.source) => Dark(doc), OneLit(ui.source) => OneLit(doc),
             Click("edit", [ui EXCEPT !.source = doc])
      PROVE  Inv'
  <2> DEFINE u == [ui EXCEPT !.source = doc]
  <2>1. Click("edit", u)
    BY <1>2
  <2>2. /\ DOMAIN u = DOMAIN ui /\ SameControl(ui, u) /\ SameExchange(ui, u)
        /\ SameTables(ui, u) /\ SameListing(ui, u) /\ u.compiled = ui.compiled
        /\ u.source = doc /\ u.threw = ui.threw
    BY <1>1 DEF PageTypes, PageFields, SameControl, SameExchange, SameTables,
       SameListing
  <2> HIDE DEF u
  <2>3. u.threw \in BOOLEAN /\ u.compiled \in CompiledDocs
    BY <1>1, <2>2, PageDocs DEF PageTypes, ControlTypes
  <2>4. OnlyEditors(ui, u)
    BY <1>1, <1>2, <2>2, <2>3, DocumentFrame
  <2>5. PageTypes(u) /\ PageAgrees(u)
    BY <1>1, <1>2, <2>2, <2>4, PagesAlike DEF OnlyEditors, PageAgrees,
       EditorsAgree,
       ListingAgrees, SameListing
  <2>6. /\ u.requests = ui.requests /\ u.session = ui.session
        /\ u.pollSession = ui.pollSession /\ u.pollStep = ui.pollStep
        /\ u.pollTries = ui.pollTries
    BY <2>2 DEF SameControl, SameExchange
  <2> QED BY <1>2, <2>1, <2>2, <2>5, <2>6, QuietClick
<1>3. Held(ui.source)
  BY <1>1 DEF PageAgrees, EditorsAgree
<1>4. ASSUME NEW i \in DOMAIN ui.source,
             Click("edit", [ui EXCEPT !.source = InsertLine(@, i - 1)])
      PROVE  Inv'
  <2>1. LET e == InsertLine(ui.source, i - 1) IN
        /\ e \in SourceDocs /\ Held(e)
        /\ Dark(ui.source) => Dark(e)
        /\ OneLit(ui.source) => OneLit(e)
    BY <1>1, <1>3, LineInserted DEF SourceDocs
  <2>2. Click("edit", [ui EXCEPT !.source = InsertLine(ui.source, i - 1)])
    BY <1>4
  <2> QED BY <2>1, <2>2, <1>2
<1>5. ASSUME NEW i \in DOMAIN ui.source, Len(ui.source) > 1,
             Click("edit", [ui EXCEPT !.source = DeleteLine(@, i - 1)])
      PROVE  Inv'
  <2>1. LET e == DeleteLine(ui.source, i - 1) IN
        /\ e \in SourceDocs /\ Held(e)
        /\ Dark(ui.source) => Dark(e)
        /\ OneLit(ui.source) => OneLit(e)
    BY <1>1, <1>3, <1>5, LineDeleted DEF SourceDocs
  <2>2. Click("edit", [ui EXCEPT !.source = DeleteLine(ui.source, i - 1)])
    BY <1>5
  <2> QED BY <2>1, <2>2, <1>2
<1> QED BY <1>4, <1>5 DEF Edit

(* A change of the popup's window.                                           *)
LEMMA PopupClick ==
  ASSUME Inv, NEW u, DOMAIN u = DOMAIN ui, SameControl(ui, u), SameExchange(ui, u),
         SameEditors(ui, u), u.threw = ui.threw, TableTypes(u), Mirrored(u),
         NEW feature, Click(feature, u)
  PROVE  Inv'
<1>1. PageTypes(ui) /\ PageAgrees(ui)
  BY DEF Inv, PageInv
<1>2. PageTypes(u)
  BY <1>1 DEF PageTypes, ControlTypes, EditorTypes, RequestTypes, Outstanding,
     SameControl, SameExchange, SameEditors, SameListing
<1>3. PageAgrees(u)
  BY <1>1, PagesAlike DEF PageAgrees, SameEditors
<1>4. /\ u.requests = ui.requests /\ u.session = ui.session
      /\ u.pollSession = ui.pollSession /\ u.pollStep = ui.pollStep
      /\ u.pollTries = ui.pollTries /\ u.source = ui.source
  BY DEF SameControl, SameExchange, SameEditors
<1> QED BY <1>2, <1>3, <1>4, QuietClick

(* The popup is opened: it shows nothing yet.                                *)
LEMMA MoreClickKeeps == ASSUME Inv, MoreClick PROVE Inv'
<1> DEFINE w == [t \in Tables |-> NoData]
           u == [ui EXCEPT !.popup = "loading", !.window = w]
<1>1. PageTypes(ui) /\ PageAgrees(ui)
  BY DEF Inv, PageInv
<1>2. Click("popup", u)
  BY DEF MoreClick
<1>3. /\ DOMAIN u = DOMAIN ui /\ SameControl(ui, u) /\ SameExchange(ui, u)
      /\ SameEditors(ui, u) /\ u.threw = ui.threw /\ u.popup = "loading"
      /\ u.last = ui.last /\ u.main = ui.main /\ u.window = w
  BY <1>1 DEF PageTypes, PageFields, SameControl, SameExchange, SameEditors,
     SameListing
<1>4. w \in [Tables -> Data] /\ \A t \in Tables : w[t] = NoData
  BY DEF Data
<1> HIDE DEF u, w
<1>5. TableTypes(u) /\ Mirrored(u)
  BY <1>1, <1>3, <1>4 DEF PageTypes, TableTypes, PageAgrees, Mirrored
<1> QED BY <1>2, <1>3, <1>5, PopupClick

(* The popup is closed.                                                      *)
LEMMA PopupClosedKeeps == ASSUME Inv, PopupClosed PROVE Inv'
<1> DEFINE u == [ui EXCEPT !.popup = "closed"]
<1>1. PageTypes(ui) /\ PageAgrees(ui)
  BY DEF Inv, PageInv
<1>2. Click("popup", u)
  BY DEF PopupClosed
<1>3. /\ DOMAIN u = DOMAIN ui /\ SameControl(ui, u) /\ SameExchange(ui, u)
      /\ SameEditors(ui, u) /\ u.threw = ui.threw /\ u.popup = "closed"
      /\ u.last = ui.last /\ u.main = ui.main /\ u.window = ui.window
  BY <1>1 DEF PageTypes, PageFields, SameControl, SameExchange, SameEditors,
     SameListing
<1> HIDE DEF u
<1>4. TableTypes(u) /\ Mirrored(u)
  BY <1>1, <1>3 DEF PageTypes, TableTypes, PageAgrees, Mirrored
<1> QED BY <1>2, <1>3, <1>4, PopupClick

(* A dead request that lives again.                                          *)
LEMMA Revived ==
  ASSUME NEW kind, NEW sid, NEW arg, NEW resp,
         NEW d, d = [kind |-> kind, sid |-> sid, arg |-> arg, live |-> FALSE,
                     resp |-> resp]
  PROVE  [d EXCEPT !.live = TRUE]
           = [kind |-> kind, sid |-> sid, arg |-> arg, live |-> TRUE, resp |-> resp]
<1>1. /\ DOMAIN d = {"kind", "sid", "arg", "live", "resp"}
      /\ d.kind = kind /\ d.sid = sid /\ d.arg = arg /\ d.resp = resp
  OBVIOUS
<1> DEFINE e == [d EXCEPT !.live = TRUE]
<1>2. e = [f \in DOMAIN d |-> IF f = "live" THEN TRUE ELSE d[f]]
  BY <1>1
<1>3. \A f \in DOMAIN d :
        (IF f = "live" THEN TRUE ELSE d[f])
          = [kind |-> kind, sid |-> sid, arg |-> arg, live |-> TRUE, resp |-> resp][f]
  <2> TAKE f \in DOMAIN d
  <2>1. CASE f = "live"
    BY <2>1
  <2>2. CASE f = "kind"
    BY <1>1, <2>2
  <2>3. CASE f = "sid"
    BY <1>1, <2>3
  <2>4. CASE f = "arg"
    BY <1>1, <2>4
  <2>5. CASE f = "resp"
    BY <1>1, <2>5
  <2> QED BY <1>1, <2>1, <2>2, <2>3, <2>4, <2>5
<1>4. [kind |-> kind, sid |-> sid, arg |-> arg, live |-> TRUE, resp |-> resp]
        = [f \in DOMAIN d |-> [kind |-> kind, sid |-> sid, arg |-> arg,
                               live |-> TRUE, resp |-> resp][f]]
  BY <1>1
<1> QED BY <1>2, <1>3, <1>4

(* The requests that outlive a page are still requests.                      *)
LEMMA AbandonedTypes ==
  ASSUME NEW u, PageTypes(u)
  PROVE  LET B == Abandoned(u.requests) IN
         /\ IsABag(B)
         /\ \A d \in BagToSet(B) :
              /\ RequestType(d) /\ ~d.live /\ d.resp = NoAnswer
              /\ \E r \in Outstanding(u) : TRUE
<1> DEFINE waiting == {r \in Outstanding(u) : r.resp = NoAnswer}
           Copies(r) == IF r \in waiting THEN u.requests[r] ELSE 0
           dead == {[r EXCEPT !.live = FALSE] : r \in waiting}
           B == Abandoned(u.requests)
<1>1. /\ DOMAIN B = dead
      /\ \A d \in dead : B[d] = Copies(d) + Copies([d EXCEPT !.live = TRUE])
      /\ B = [d \in dead |-> B[d]]
  BY DEF Abandoned, Outstanding
<1>2. \A r \in Outstanding(u) :
        RequestType(r) /\ u.requests[r] \in Nat /\ u.requests[r] > 0
  BY DEF PageTypes, RequestTypes, IsABag, Outstanding, BagToSet
<1>3. \A r : Copies(r) \in Nat /\ (r \in waiting => Copies(r) > 0)
  BY <1>2
<1>4. ASSUME NEW d \in dead
      PROVE  /\ RequestType(d) /\ ~d.live /\ d.resp = NoAnswer
             /\ d \in waiting \/ [d EXCEPT !.live = TRUE] \in waiting
             /\ \E r \in Outstanding(u) : TRUE
  <2>1. PICK r \in waiting : d = [r EXCEPT !.live = FALSE]
    OBVIOUS
  <2>2. /\ RequestType(r) /\ r \in Outstanding(u) /\ r.resp = NoAnswer
    BY <1>2
  <2>3. r = [kind |-> r.kind, sid |-> r.sid, arg |-> r.arg, live |-> r.live,
             resp |-> r.resp]
    BY <2>2 DEF RequestType
  <2>4. d = [kind |-> r.kind, sid |-> r.sid, arg |-> r.arg, live |-> FALSE,
             resp |-> r.resp]
    BY <2>1, <2>3
  <2>5. /\ d.kind = r.kind /\ d.sid = r.sid /\ d.arg = r.arg /\ d.live = FALSE
        /\ d.resp = r.resp
    BY <2>4
  <2>6. d = [kind |-> d.kind, sid |-> d.sid, arg |-> d.arg, live |-> d.live,
             resp |-> d.resp]
    BY <2>4, <2>5
  <2>7. RequestType(d)
    BY <2>2, <2>5, <2>6 DEF RequestType
  <2>8. d = r \/ [d EXCEPT !.live = TRUE] = r
    <3>1. r.live \in BOOLEAN
      BY <2>2 DEF RequestType
    <3>2. CASE r.live = FALSE
      BY <2>3, <2>4, <3>2
    <3>3. CASE r.live = TRUE
      <4>1. [d EXCEPT !.live = TRUE]
              = [kind |-> r.kind, sid |-> r.sid, arg |-> r.arg, live |-> TRUE,
                 resp |-> r.resp]
        BY <2>4, Revived
      <4> QED BY <2>3, <3>3, <4>1
    <3> QED BY <3>1, <3>2, <3>3
  <2> QED BY <2>1, <2>2, <2>5, <2>7, <2>8
<1> HIDE DEF waiting, Copies, dead, B
<1>5. ASSUME NEW d \in dead
      PROVE  B[d] \in Nat /\ B[d] > 0
  <2>1. /\ Copies(d) \in Nat /\ Copies([d EXCEPT !.live = TRUE]) \in Nat
        /\ Copies(d) > 0 \/ Copies([d EXCEPT !.live = TRUE]) > 0
    BY <1>3, <1>4
  <2> QED BY <1>1, <2>1
<1>6. IsABag(B)
  BY <1>1, <1>5 DEF IsABag
<1> QED BY <1>1, <1>4, <1>6 DEF BagToSet, B

-----------------------------------------------------------------------------
(* A page that is loaded *)

Fresh(u) ==
  /\ DOMAIN u = PageFields
  /\ u.state = "INIT" /\ u.session = NoName /\ u.pollTries = 0
  /\ u.strayTimers = 0 /\ u.pollSession = 0 /\ u.pollStep = 0
  /\ u.autoStep = FALSE /\ u.autoTimer = FALSE /\ u.reading = FALSE
  /\ u.threw = FALSE
  /\ u.source = EmptyDoc /\ u.compiled = EmptyDoc
  /\ u.lineNumbers = <<>> /\ u.disasmMap = <<>> /\ u.popup = "none"
  /\ u.last = [t \in Tables |-> NoData] /\ u.main = [t \in Tables |-> NoData]
  /\ u.window = [t \in Tables |-> NoData]

(* A page shows nothing when it is loaded, and all that it shows agrees.     *)
LEMMA FreshPage ==
  ASSUME NEW u, Fresh(u), u.hash \in Session \union {NoName}, RequestTypes(u)
  PROVE  PageTypes(u) /\ PageAgrees(u) /\ Dark(u.source)
<1>1. ASSUME NEW nums
      PROVE  /\ EmptyDoc \in Docs(nums \union {0}) /\ Dark(EmptyDoc) /\ Held(EmptyDoc)
             /\ Len(EmptyDoc) = 1 /\ \A i \in DOMAIN EmptyDoc : ~EmptyDoc[i].bkpt
  <2>1. Line(0) \in LineType(nums \union {0}) /\ Line(0).classes = {} /\ ~Line(0).bkpt
    BY DEF Line, LineType
  <2>2. /\ EmptyDoc \in Seq(LineType(nums \union {0})) /\ Len(EmptyDoc) = 1
        /\ DOMAIN EmptyDoc = {1} /\ EmptyDoc[1] = Line(0)
    BY <2>1 DEF EmptyDoc
  <2>3. Len(<<>>) = 0
    OBVIOUS
  <2>4. EmptyDoc # <<>>
    BY DEF EmptyDoc
  <2> QED BY <2>1, <2>2, <2>4 DEF Docs, Dark, Held
<1>2. EditorTypes(u)
  <2>1. /\ u.source \in Docs(LineNumbers \union {0})
        /\ u.compiled \in Docs(Addresses \union {0})
    BY <1>1 DEF Fresh
  <2>2. <<>> \in Seq(Addresses \union {-1}) /\ DOMAIN <<>> = {}
    OBVIOUS
  <2> QED BY <2>1, <2>2 DEF EditorTypes, Docs, Fresh
<1>3. ControlTypes(u)
  <2>1. 0 \in 0..(MaxPollTries + 1) /\ 0 \in Nat
    BY WebUIAssumption
  <2>2. /\ u.pollTries \in 0..(MaxPollTries + 1) /\ u.strayTimers \in Nat
        /\ u.pollSession \in Nat /\ u.pollStep \in Nat
    BY <2>1 DEF Fresh
  <2>3. /\ u.autoStep \in BOOLEAN /\ u.autoTimer \in BOOLEAN
        /\ u.reading \in BOOLEAN /\ u.threw \in BOOLEAN
    BY DEF Fresh
  <2>4. u.state \in {"INIT", "IDLE", "DEBUG"} /\ u.session \in Session \union {NoName}
    BY DEF Fresh
  <2> QED BY <2>2, <2>3, <2>4 DEF ControlTypes
<1>4. TableTypes(u)
  <2>1. [t \in Tables |-> NoData] \in [Tables -> Data]
    BY DEF Data
  <2> QED BY <2>1 DEF TableTypes, Fresh
<1>5. EditorsAgree(u)
  <2>1. Len(<<>>) = 0 /\ DOMAIN <<>> = {}
    OBVIOUS
  <2>2. /\ Len(u.lineNumbers) = 0 /\ DOMAIN u.lineNumbers = {} /\ DOMAIN u.disasmMap = {}
        /\ Len(u.compiled) = 1 /\ \A i \in DOMAIN u.compiled : ~u.compiled[i].bkpt
        /\ Held(u.source) /\ Held(u.compiled)
    BY <1>1, <2>1 DEF Fresh
  <2>3. ListingAgrees(u)
    BY <2>2 DEF ListingAgrees
  <2> QED BY <2>2, <2>3 DEF EditorsAgree
<1>6. Mirrored(u)
  BY DEF Mirrored, Tables, Fresh
<1>7. OneLit(u.compiled) /\ Dark(u.source)
  BY <1>1 DEF Dark, OneLit, Fresh
<1> QED BY <1>2, <1>3, <1>4, <1>5, <1>6, <1>7 DEF PageTypes, PageAgrees, Fresh

(* The page is loaded again: what is under way is an excuse.                 *)
LEMMA ReloadKeeps == ASSUME Inv, Reload PROVE Inv'
<1> DEFINE B == Abandoned(ui.requests)
           u == [Page(ui.hash) EXCEPT !.requests = B]
<1>1. PageTypes(ui) /\ PageAgrees(ui)
  BY DEF Inv, PageInv
<1>2. /\ ui' = [u EXCEPT !.threw = FALSE] /\ UNCHANGED <<server, single>>
      /\ ~overlap' => ~overlap
      /\ ~excused' => ~excused /\ ~Busy(ui)
  BY DEF Reload, Event, Handled
<1>3. /\ IsABag(B)
      /\ \A d \in BagToSet(B) :
           /\ RequestType(d) /\ ~d.live /\ d.resp = NoAnswer
           /\ \E r \in Outstanding(ui) : TRUE
  BY <1>1, AbandonedTypes
<1> HIDE DEF B
<1>4. /\ Fresh(u) /\ u.requests = B /\ u.hash = ui.hash
      /\ u.pollSession = 0 /\ u.pollStep = 0
  BY DEF Page, PageFields, Fresh
<1> HIDE DEF u
<1>5. Outstanding(u) = BagToSet(B) /\ LiveIn(u) = {}
  BY <1>3, <1>4 DEF Outstanding, LiveIn
<1>6. PageTypes(u) /\ PageAgrees(u) /\ Dark(u.source)
  <2>1. ui.hash \in Session \union {NoName} /\ RequestTypes(u)
    BY <1>1, <1>3, <1>4, <1>5 DEF PageTypes, ControlTypes, RequestTypes
  <2> QED BY <1>4, <2>1, FreshPage
<1>7. AnswersLive(u)
  BY <1>3, <1>5 DEF AnswersLive
<1>8. OneExchange(u)
  BY <1>4, <1>5, <1>6 DEF OneExchange, Lone, Own, SourceLit, Dark, OneLit
<1>9. ASSUME ~excused'
      PROVE  \A r \in Outstanding(u) : r.live
  <2>1. /\ \A r \in Outstanding(ui) : r.live
        /\ \A r \in Outstanding(ui) : ~r.live
    BY <1>2, <1>9 DEF Inv, Busy
  <2> QED BY <2>1, <1>3, <1>5
<1>10. ASSUME ~overlap', ~excused'
       PROVE  StepsAsked(u)
  <2>1. StepsAsked(ui) /\ ~Busy(ui)
    BY <1>2, <1>10 DEF Inv
  <2>2. \A s \in Session : ~StepUnderWay(ui, s)
    BY <1>1, <2>1 DEF StepUnderWay, Busy, LiveIn, Outstanding
  <2> QED BY <2>1, <2>2 DEF StepsAsked
<1> QED BY <1>2, <1>6, <1>7, <1>8, <1>9, <1>10, HandlerKeeps

-----------------------------------------------------------------------------
(* An answer is applied *)

(* Of what its handler leaves, every request but one for the end is older.   *)
LEMMA AnswersOutstanding ==
  ASSUME NEW u, PageTypes(u), NEW v,
         \/ Ended(u, v) \/ AsksToStop(u, v) \/ PollsSession(u, v) \/ PollsStep(u, v)
  PROVE  \A q \in Outstanding(v) :
           q \in Outstanding(u) \/ (q.live /\ q.resp = NoAnswer)
<1>1. CASE v.requests = u.requests
  BY <1>1 DEF Outstanding
<1>2. CASE AsksToStop(u, v)
  <2>1. PICK sid : Asks(u, v, Request("stop", sid, Unlisted))
    BY <1>2 DEF AsksToStop
  <2> DEFINE q == Request("stop", sid, Unlisted)
  <2>2. q.live /\ q.resp = NoAnswer
    BY DEF Request
  <2> HIDE DEF q
  <2>3. Outstanding(v) = Outstanding(u) \union {q}
    BY <2>1, AskedIsOutstanding DEF q
  <2> QED BY <2>2, <2>3
<1> QED BY <1>1, <1>2 DEF Ended, PollsSession, PollsStep

(* The answer ends its exchange, or leads to the next of its requests.       *)
LEMMA AnswersExchange ==
  ASSUME NEW u, PageTypes(u), NEW v, PageTypes(v),
         LiveIn(u) = {}, u.pollSession = 0, u.pollStep = 0, OneLit(v.source),
         \/ Ended(u, v) \/ (AsksToStop(u, v) /\ ~Busy(u))
         \/ (PollsSession(u, v) /\ Dark(v.source)) \/ PollsStep(u, v)
  PROVE  OneExchange(v)
<1>1. CASE v.requests = u.requests
  <2>1. LiveIn(v) = {}
    BY <1>1 DEF LiveIn, Outstanding
  <2>2. CASE Ended(u, v)
    BY <2>1, <2>2 DEF Ended, SameTimers, OneExchange, Lone, Own, SourceLit,
       AwaitsSession
  <2>3. CASE PollsSession(u, v) /\ Dark(v.source)
    BY <2>1, <2>3 DEF PollsSession, OneExchange, Lone, Own, SourceLit
  <2>4. CASE PollsStep(u, v)
    BY <2>1, <2>4 DEF PollsStep, OneExchange, Lone, Own, SourceLit,
       AwaitsSession
  <2>5. CASE AsksToStop(u, v) /\ ~Busy(u)
    BY <1>1, <2>1, <2>5 DEF AsksToStop, SameTimers, OneExchange, Lone, Own,
       SourceLit,
       AwaitsSession
  <2> QED BY <2>2, <2>3, <2>4, <2>5
<1>2. CASE AsksToStop(u, v) /\ ~Busy(u)
  <2>1. PICK sid : Asks(u, v, Request("stop", sid, Unlisted))
    BY <1>2 DEF AsksToStop
  <2> DEFINE q == Request("stop", sid, Unlisted)
  <2>2. q.live /\ q.kind = "stop"
    BY DEF Request
  <2>3. Asks(u, v, q)
    BY <2>1
  <2> HIDE DEF q
  <2>4. v.pollSession = u.pollSession /\ v.pollStep = u.pollStep
    BY <1>2 DEF AsksToStop, SameTimers
  <2>5. Lone(v) /\ LiveIn(v) = {q} /\ v.pollSession = 0 /\ v.pollStep = 0
    BY <1>2, <2>2, <2>3, <2>4, AskedAlone
  <2> QED BY <2>2, <2>5 DEF OneExchange, Own, SourceLit, AwaitsSession
<1> QED BY <1>1, <1>2 DEF Ended, PollsSession, PollsStep

(* The handler of an answer.                                                 *)
LEMMA AnswerApplied ==
  ASSUME Inv, NEW r \in Outstanding(ui), r.resp # NoAnswer,
         NEW base, base = [ui EXCEPT !.requests = @ (-) SetToBag({r})],
         NEW u, u = Answers(base, r), Handled(base, u),
         UNCHANGED <<server, single>>, ~excused' => ~excused
  PROVE  Inv'
<1>1. PageTypes(ui) /\ PageAgrees(ui) /\ ~ui.threw /\ r.live
  BY DEF Inv, PageInv, AnswersLive
<1>2. /\ PageTypes(base) /\ SameControl(ui, base) /\ SameTables(ui, base)
      /\ SameEditors(ui, base) /\ SamePolls(ui, base) /\ base.threw = ui.threw
      /\ Outstanding(base) \subseteq Outstanding(ui)
      /\ Lone(ui) => LiveIn(base) = {} /\ base.pollSession = 0 /\ base.pollStep = 0
  BY <1>1, AnsweredIsGone
<1>3. PageAgrees(base) /\ ~base.threw
  BY <1>1, <1>2, PagesAlike DEF PageAgrees, SameEditors
<1>4. RequestType(r)
  BY <1>1 DEF PageTypes, RequestTypes
<1>5. /\ PageTypes(u) /\ PageAgrees(u)
      /\ OneLit(base.source) /\ (r.kind = "session-state" => Dark(base.source))
           => OneLit(u.source)
      /\ \/ Ended(base, u) \/ AsksToStop(base, u)
         \/ /\ PollsSession(base, u)
            /\ (r.kind = "session-state" => Dark(base.source)) => Dark(u.source)
         \/ PollsStep(base, u)
      /\ /\ r.resp.is = "data"
         /\ \/ r.kind = "step" /\ r.resp.ok
            \/ r.kind = "step-state" /\ ~r.resp.ok /\ base.pollTries = 0
         => PollsStep(base, u)
  BY <1>2, <1>3, <1>4, AnswersPage
<1>6. \A q \in Outstanding(u) :
        q \in Outstanding(ui) \/ (q.live /\ q.resp = NoAnswer)
  BY <1>2, <1>5, AnswersOutstanding
<1>7. AnswersLive(u)
  BY <1>6 DEF Inv, PageInv, AnswersLive
<1>8. ~excused' => \A q \in Outstanding(u) : q.live
  BY <1>6 DEF Inv
<1>9. ASSUME ~overlap'
      PROVE  OneExchange(ui) /\ OneExchange(u) /\ LiveIn(ui) = {r}
  <2>1. OneExchange(ui) /\ (Busy(base) => ~Sent(base, u))
    BY <1>9 DEF Handled, Inv
  <2>2. r \in LiveIn(ui)
    BY <1>1 DEF LiveIn
  <2>3. LiveIn(ui) = {r} /\ ui.pollSession = 0 /\ ui.pollStep = 0
    BY <2>1, <2>2 DEF OneExchange, Lone
  <2>4. LiveIn(base) = {} /\ base.pollSession = 0 /\ base.pollStep = 0
    BY <1>2, <2>1 DEF OneExchange
  <2>5. base.source = ui.source
    BY <1>2 DEF SameEditors
  <2>6. OneLit(base.source) /\ (r.kind = "session-state" => Dark(base.source))
    BY <2>1, <2>2, <2>5 DEF OneExchange, SourceLit, AwaitsSession
  <2>7. AsksToStop(base, u) => ~Busy(base)
    <3>1. ASSUME AsksToStop(base, u)
          PROVE  Sent(base, u)
      <4>1. PICK sid : Asks(base, u, Request("stop", sid, Unlisted))
        BY <3>1 DEF AsksToStop
      <4> DEFINE q == Request("stop", sid, Unlisted)
      <4>2. q.live /\ Asks(base, u, q)
        BY <4>1 DEF Request
      <4> HIDE DEF q
      <4> QED BY <1>2, <4>2, AskedIsSent
    <3> QED BY <2>1, <3>1
  <2>8. OneExchange(u)
    BY <1>2, <1>5, <2>4, <2>6, <2>7, AnswersExchange
  <2> QED BY <2>1, <2>3, <2>8
<1>10. ASSUME ~overlap', ~excused'
       PROVE  StepsAsked(u)
  <2>1. StepsAsked(ui)
    BY <1>10 DEF Inv, Handled
  <2>2. ui.pollSession = 0 /\ ui.pollStep = 0 /\ r \in LiveIn(ui)
    BY <1>9, <1>10 DEF OneExchange, Lone
  <2>3. r.resp.is \in {"error", "data"}
    BY <1>4 DEF RequestType
  <2>4. r.kind \in {"step", "step-state"} =>
          r.sid = ui.session /\ (r.kind = "step-state" => ui.pollTries = 0)
    BY <1>9, <1>10, <2>2 DEF OneExchange, Own
  <2>5. ASSUME NEW s \in Session, StepUnderWay(ui, s)
        PROVE  StepUnderWay(u, s)
    <3>1. /\ s \in Named(r.sid) /\ r.resp.is = "data"
          /\ \/ r.kind = "step" /\ r.resp.ok
             \/ r.kind = "step-state" /\ ~r.resp.ok
      BY <1>9, <1>10, <2>2, <2>3, <2>5 DEF StepUnderWay
    <3>2. base.pollTries = ui.pollTries /\ base.session = ui.session
      BY <1>2 DEF SamePolls, SameControl
    <3>3. PollsStep(base, u)
      BY <1>5, <2>4, <3>1, <3>2
    <3>4. u.pollStep > 0 /\ u.session = r.sid
      BY <1>2, <2>2, <2>4, <3>1, <3>2, <3>3 DEF PollsStep, SamePolls
    <3> QED BY <3>1, <3>4 DEF StepUnderWay
  <2> QED BY <2>1, <2>5 DEF StepsAsked
<1>11. ui' = [u EXCEPT !.threw = FALSE]
  BY DEF Handled
<1> QED BY <1>5, <1>7, <1>8, <1>9, <1>10, <1>11, HandlerKeeps

(* An answer is applied: a request ends its exchange, or goes on with it.    *)
LEMMA DeliverKeeps == ASSUME Inv, Deliver PROVE Inv'
<1>1. PICK r \in Outstanding(ui) :
        /\ r.resp # NoAnswer
        /\ LET base == [ui EXCEPT !.requests = @ (-) SetToBag({r})]
               u == Answers(base, r)
           IN Handled(base, u) /\ excused' = (excused \/ Excuse(base, r, u))
        /\ UNCHANGED <<server, single, user, clicks, losses>>
  BY DEF Deliver
<1> DEFINE base == [ui EXCEPT !.requests = @ (-) SetToBag({r})]
           u == Answers(base, r)
<1>2. Handled(base, u) /\ excused' = (excused \/ Excuse(base, r, u))
  BY <1>1
<1> HIDE DEF u
<1>3. u = Answers(base, r)
  BY DEF u
<1> HIDE DEF base
<1>4. base = [ui EXCEPT !.requests = @ (-) SetToBag({r})]
  BY DEF base
<1> QED BY <1>1, <1>2, <1>3, <1>4, AnswerApplied

-----------------------------------------------------------------------------
(* The server *)

(* The answer to a page that is gone is not sent to another.                 *)
LEMMA DeadIsGone ==
  ASSUME NEW u, PageTypes(u), OneExchange(u), NEW r \in Outstanding(u), ~r.live,
         NEW v, v = [u EXCEPT !.requests = @ (-) SetToBag({r})]
  PROVE  OneExchange(v)
<1> DEFINE B == u.requests (-) SetToBag({r})
<1>1. /\ BagToSet(B) \subseteq Outstanding(u)
      /\ \A q \in BagToSet(B) \ {r} : B[q] = u.requests[q]
  BY Removed DEF PageTypes, RequestTypes, Outstanding
<1>2. /\ SameControl(u, v) /\ SameEditors(u, v) /\ SamePolls(u, v)
  BY AnsweredIsGone
<1>3. v.requests = B
  BY DEF PageTypes, PageFields
<1> HIDE DEF B
<1>4. /\ LiveIn(v) \subseteq LiveIn(u)
      /\ \A q \in LiveIn(v) : v.requests[q] = u.requests[q]
  BY <1>1, <1>3 DEF LiveIn, Outstanding
<1>5. Lone(v)
  BY <1>2, <1>4 DEF OneExchange, Lone, SamePolls
<1>6. SourceLit(v)
  BY <1>2, <1>4 DEF OneExchange, SourceLit, AwaitsSession, SamePolls,
     SameEditors
<1>7. Own(v)
  BY <1>2, <1>4 DEF OneExchange, Own, SamePolls, SameControl
<1> QED BY <1>5, <1>6, <1>7 DEF OneExchange

\* What an answer may say of the steps: of the state of a step, that there is
\* none yet; of a step, that it is queued.
StepsAnswered(r, a) ==
  \A s \in Session :
    server'[s].steps > 0 =>
      \/ /\ server'[s].steps = server[s].steps
         /\ r.kind = "step-state" /\ s \in Named(r.sid) => ~a.ok /\ s \in Named(r.sid)'
      \/ /\ r.kind = "step" /\ a.ok /\ s \in Named(r.sid)'
         /\ server'[s].steps = server[s].steps + 1

\* What an answer leaves; it may come to be excused.
Remaining == UNCHANGED <<single, overlap>> /\ (~excused' => ~excused)

(* An answer leaves, to the page that asked or to none.                      *)
LEMMA AnsweredKeeps ==
  ASSUME Inv, NEW r \in Outstanding(ui), r.resp = NoAnswer, NEW a \in AnswerType,
         Answered(r, a), Remaining,
         server' \in [Session -> SessionType], ServerAgrees', StepsAnswered(r, a)
  PROVE  Inv'
<1>1. PageTypes(ui) /\ PageAgrees(ui) /\ ~ui.threw /\ AnswersLive(ui)
  BY DEF Inv, PageInv
<1>2. (~overlap' => ~overlap) /\ (~excused' => ~excused)
  BY DEF Remaining
<1>3. CASE r.live
  <2> DEFINE q == [r EXCEPT !.resp = a]
             v == [ui EXCEPT !.requests = (@ (-) SetToBag({r})) (+) SetToBag({q})]
  <2>1. ui' = v
    BY <1>3 DEF Answered
  <2>2. /\ PageTypes(v) /\ SameControl(ui, v) /\ SameTables(ui, v)
        /\ SameEditors(ui, v) /\ SamePolls(ui, v) /\ v.threw = ui.threw
        /\ q.kind = r.kind /\ q.sid = r.sid /\ q.live = r.live /\ q.resp = a
        /\ q \in Outstanding(v) /\ Outstanding(v) \subseteq Outstanding(ui) \union {q}
        /\ Lone(ui) /\ r.live => Lone(v) /\ LiveIn(v) = {q}
    BY <1>1, AnswerComes
  <2> HIDE DEF q, v
  <2>3. PageInv(v)
    BY <1>1, <1>3, <2>2, PagesAlike DEF PageInv, PageAgrees, SameEditors,
       AnswersLive
  <2>4. ~excused => \A d \in Outstanding(v) : d.live
    BY <1>3, <2>2 DEF Inv
  <2>5. r \in LiveIn(ui)
    BY <1>3 DEF LiveIn
  <2>6. ASSUME ~overlap
        PROVE  OneExchange(v) /\ LiveIn(v) = {q} /\ LiveIn(ui) = {r}
               /\ ui.pollStep = 0
    <3>1. OneExchange(ui)
      BY <2>6 DEF Inv
    <3>2. /\ Lone(v) /\ LiveIn(v) = {q} /\ LiveIn(ui) = {r}
          /\ ui.pollSession = 0 /\ ui.pollStep = 0
      BY <1>3, <2>2, <2>5, <3>1 DEF OneExchange, Lone
    <3>3. SourceLit(v)
      BY <2>2, <2>5, <3>1, <3>2 DEF OneExchange, SourceLit, AwaitsSession,
         SamePolls,
         SameEditors
    <3>4. Own(v)
      BY <2>2, <2>5, <3>1, <3>2 DEF OneExchange, Own, SamePolls, SameControl
    <3> QED BY <3>2, <3>3, <3>4 DEF OneExchange
  <2>7. ASSUME ~overlap, ~excused
        PROVE  StepsAsked(ui)'
    <3>1. StepsAsked(ui) /\ LiveIn(v) = {q} /\ LiveIn(ui) = {r} /\ ui.pollStep = 0
      BY <2>6, <2>7 DEF Inv
    <3>2. r.resp.is = "none" /\ a.is = "data"
      BY DEF NoAnswer, AnswerType
    <3>3. \A s \in Session : server[s].steps > 0 =>
            server[s].steps = 1 /\ r.kind = "step-state" /\ s \in Named(r.sid)
      BY <3>1, <3>2 DEF StepsAsked, StepUnderWay
    <3>4. \A s \in Session : server[s].steps \in Nat
      BY WebUIAssumption DEF Inv, SessionType
    <3>5. ASSUME NEW s \in Session, server'[s].steps > 0
          PROVE  server'[s].steps = 1 /\ StepUnderWay(ui, s)'
      <4>1. q \in LiveIn(ui)'
        BY <2>1, <3>1 DEF LiveIn, Outstanding
      <4>2. CASE /\ server'[s].steps = server[s].steps
                 /\ r.kind = "step-state" /\ s \in Named(r.sid)
                      => ~a.ok /\ s \in Named(r.sid)'
        <5>1. /\ server'[s].steps = 1 /\ r.kind = "step-state" /\ ~a.ok
              /\ s \in Named(r.sid)'
          BY <3>3, <3>5, <4>2
        <5>2. q.kind = "step-state" /\ q.resp.is # "error" /\ ~q.resp.ok
              /\ q.sid = r.sid
          BY <2>2, <3>2, <5>1
        <5> QED BY <4>1, <5>1, <5>2 DEF StepUnderWay
      <4>3. CASE /\ r.kind = "step" /\ a.ok /\ s \in Named(r.sid)'
                 /\ server'[s].steps = server[s].steps + 1
        <5>1. server'[s].steps = 1
          BY <3>3, <3>4, <4>3
        <5>2. q.kind = "step" /\ q.resp.is = "data" /\ q.resp.ok /\ q.sid = r.sid
          BY <2>2, <3>2, <4>3
        <5> QED BY <4>1, <4>3, <5>1, <5>2 DEF StepUnderWay
      <4> QED BY <3>5, <4>2, <4>3 DEF StepsAnswered
    <3> QED BY <3>5 DEF StepsAsked
  <2> QED BY <1>2, <2>1, <2>3, <2>4, <2>6, <2>7 DEF Inv
<1>4. CASE ~r.live
  <2> DEFINE v == [ui EXCEPT !.requests = @ (-) SetToBag({r})]
  <2>1. ui' = v
    BY <1>4 DEF Answered
  <2>2. /\ PageTypes(v) /\ SameTables(ui, v) /\ SameEditors(ui, v)
        /\ v.threw = ui.threw /\ Outstanding(v) \subseteq Outstanding(ui)
    BY <1>1, AnsweredIsGone
  <2>3. OneExchange(ui) => OneExchange(v)
    BY <1>1, <1>4, DeadIsGone
  <2> HIDE DEF v
  <2>4. PageInv(v)
    BY <1>1, <2>2, PagesAlike DEF PageInv, PageAgrees, SameEditors, AnswersLive
  <2>5. excused /\ (~overlap => OneExchange(v))
    BY <1>4, <2>3 DEF Inv
  <2> QED BY <1>2, <2>1, <2>4, <2>5 DEF Inv
<1> QED BY <1>3, <1>4

(* Most answers excuse nothing.                                              *)
LEMMA AnswerKeeps ==
  ASSUME Inv, NEW r \in Outstanding(ui), r.resp = NoAnswer, NEW a \in AnswerType,
         Answered(r, a), Unchanging,
         server' \in [Session -> SessionType], ServerAgrees', StepsAnswered(r, a)
  PROVE  Inv'
<1>1. Remaining
  BY DEF Remaining, Unchanging
<1> QED BY <1>1, AnsweredKeeps

(* A name is that of one session: in single session mode there is one.       *)
LEMMA NamedIsOne ==
  ASSUME ServerAgrees, NEW sid, NEW s \in Named(sid), NEW t \in Named(sid)
  PROVE  s = t
BY DEF ServerAgrees, Named

(* What the server does to the sessions of a request changes no other.       *)
LEMMA SessionTypes ==
  ASSUME Inv, NEW s \in Session
  PROVE  /\ server \in [Session -> SessionType] /\ server[s] \in SessionType
         /\ server[s].steps \in 0..MaxPending /\ server[s].inputs \in 0..MaxPending
         /\ server[s].program \in Programs \union {NoProgram}
         /\ server[s].map \subseteq Addresses /\ server[s].add \subseteq Addresses
         /\ server[s].remove \subseteq Addresses
BY DEF Inv, SessionType

-----------------------------------------------------------------------------
(* The server's answers *)

(* Lines are numbers.                                                        *)
LEMMA LineOfType ==
  ASSUME NEW x \in SessionType, NEW pc
  PROVE  LineOf(x, pc) \in Nat
<1>1. x.program \in Programs \union {NoProgram}
  BY DEF SessionType
<1>2. CASE x.program \in Programs
  BY <1>2, WebUIAssumption DEF LineOf
<1>3. CASE x.program = NoProgram
  <2>1. DOMAIN x.program.lineOf = {}
    BY <1>3 DEF NoProgram
  <2> QED BY <2>1 DEF LineOf
<1> QED BY <1>1, <1>2, <1>3

(* An answer that fails, or only says that all is well.                      *)
LEMMA PlainAnswers ==
  ASSUME NEW ok \in BOOLEAN, NEW retry \in BOOLEAN, NEW error \in BOOLEAN,
         NEW line \in Nat, NEW name \in Session \union {NoName}
  PROVE  /\ Answer \in AnswerType
         /\ [Answer EXCEPT !.ok = ok] \in AnswerType
         /\ [Answer EXCEPT !.retry = retry] \in AnswerType
         /\ [Answer EXCEPT !.error = error] \in AnswerType
         /\ [Answer EXCEPT !.ok = ok, !.line = line] \in AnswerType
         /\ [Answer EXCEPT !.ok = ok, !.session = name] \in AnswerType
BY DEF Answer, AnswerType

(* An answer with breakpoints.                                               *)
LEMMA BreakpointsType ==
  ASSUME NEW a \in AnswerType, NEW x \in SessionType
  PROVE  WithBreakpoints(a, x) \in AnswerType
<1> DEFINE b == x.map \union x.add
           lines == {LineOf(x, pc) : pc \in b} \ {0}
           queued == x.add \ x.map
<1>1. b \in SUBSET Addresses /\ queued \in SUBSET Addresses
  BY DEF SessionType
<1>2. lines \in SUBSET Nat
  BY LineOfType
<1>3. WithBreakpoints(a, x) = [a EXCEPT !.bkpts = b, !.queued = queued,
                                        !.bkptLines = lines]
  BY DEF WithBreakpoints
<1> HIDE DEF b, lines, queued
<1> QED BY <1>1, <1>2, <1>3 DEF AnswerType

(* An answer with the position and the breakpoints.                          *)
LEMMA PositionType ==
  ASSUME NEW x \in SessionType
  PROVE  WithPosition(Answer, x) \in AnswerType /\ WithPosition(Answer, x).ok
<1> DEFINE line == LineOf(x, x.pc)
           a == [Answer EXCEPT !.ok = TRUE, !.done = x.done, !.pc = x.pc,
                               !.line = line]
<1>1. line \in Nat
  BY LineOfType
<1>2. x.done \in BOOLEAN /\ x.pc \in Addresses \union {Unlisted}
  BY DEF SessionType
<1>3. WithPosition(Answer, x) = WithBreakpoints(a, x)
  BY DEF WithPosition
<1> HIDE DEF line
<1>4. a \in AnswerType /\ a.ok
  BY <1>1, <1>2 DEF Answer, AnswerType
<1> HIDE DEF a
<1>5. WithBreakpoints(a, x).ok
  BY <1>4 DEF WithBreakpoints, AnswerType
<1> QED BY <1>3, <1>4, <1>5, BreakpointsType

(* The answers with the state of the session.                                *)
LEMMA StateTypes ==
  ASSUME NEW x \in SessionType
  PROVE  FullState(x) \in AnswerType /\ StepState(x) \in AnswerType
<1> DEFINE a == WithPosition(Answer, x)
           text == IF x.text THEN x.program.source ELSE <<>>
           listing == x.program.listing
           tables == {"regs", "stack"}
<1>1. a \in AnswerType
  BY PositionType
<1>2. x.program \in Programs \union {NoProgram}
  BY DEF SessionType
<1>3. listing \in {<<>>, NoProgram.listing} \union {p.listing : p \in Programs}
  BY <1>2
<1>4. text \in {<<>>} \union {p.source : p \in Programs}
  BY <1>2 DEF NoProgram
<1>5. tables \in SUBSET Tables /\ Tables \in SUBSET Tables
  BY DEF Tables
<1>6. /\ FullState(x) = [a EXCEPT !.compile = TRUE, !.tables = tables,
                                  !.listing = listing, !.text = text]
      /\ StepState(x) = [a EXCEPT !.tables = Tables]
  BY DEF FullState, StepState
<1> HIDE DEF a, text, listing, tables
<1> QED BY <1>1, <1>3, <1>4, <1>5, <1>6 DEF AnswerType

-----------------------------------------------------------------------------
(* The actions of the server *)

(* The sessions stay what they are, apart from the fields a command changes. *)
LEMMA SessionChanged ==
  ASSUME Inv, NEW s \in Session, NEW x \in SessionType,
         server' = [server EXCEPT ![s] = x], single' = single,
         x.st \in {"none", "gone"} \/ server[s].st \notin {"none", "gone"},
         x.steps > 0 => x.st = "ready"
  PROVE  /\ server' \in [Session -> SessionType] /\ ServerAgrees'
         /\ server'[s] = x /\ \A t \in Session \ {s} : server'[t] = server[t]
<1>1. server \in [Session -> SessionType] /\ ServerAgrees
  BY DEF Inv
<1>2. /\ server' \in [Session -> SessionType]
      /\ server'[s] = x /\ \A t \in Session \ {s} : server'[t] = server[t]
  BY <1>1
<1>3. Live' \subseteq Live
  BY <1>2 DEF Live
<1> QED BY <1>1, <1>2, <1>3 DEF ServerAgrees

\* A command of session s ends and leaves x.
CommandEnded(s, x) ==
  /\ server' = [server EXCEPT ![s] = x]
  /\ x.st \in {"none", "gone"} \/ server[s].st \notin {"none", "gone"}
  /\ x.steps > 0 => x.st = "ready"
  /\ x.steps <= server[s].steps

(* The compilation ends.                                                     *)
LEMMA CompileEnds ==
  ASSUME Inv, NEW s \in Session, EndCompile(s)
  PROVE  \E x \in SessionType : CommandEnded(s, x)
<1>1. server[s].st = "compile"
  BY DEF EndCompile
<1>2. /\ server[s] \in SessionType /\ server[s].steps \in 0..MaxPending
      /\ ~(server[s].steps > 0)
  BY <1>1, SessionTypes DEF Inv, ServerAgrees
<1>3. server[s].steps <= server[s].steps
  BY <1>2, WebUIAssumption
<1>4. CASE server' = [server EXCEPT ![s].st = "failed"]
  <2> DEFINE x == [server[s] EXCEPT !.st = "failed"]
  <2>1. server' = [server EXCEPT ![s] = x]
    BY <1>4
  <2>2. x \in SessionType /\ x.steps = server[s].steps
    BY <1>2 DEF SessionType
  <2> HIDE DEF x
  <2> QED BY <1>1, <1>2, <1>3, <2>1, <2>2 DEF CommandEnded
<1>5. CASE \E p \in Programs : LET entry == Min(DOMAIN p.lineOf) IN
             server' = [server EXCEPT ![s].st = "ready", ![s].program = p,
                                      ![s].pc = entry, ![s].map = {entry}]
  <2>1. PICK p \in Programs : LET entry == Min(DOMAIN p.lineOf) IN
          server' = [server EXCEPT ![s].st = "ready", ![s].program = p,
                                   ![s].pc = entry, ![s].map = {entry}]
    BY <1>5
  <2> DEFINE pc == Min(DOMAIN p.lineOf)
             map == {pc}
             x == [server[s] EXCEPT !.st = "ready", !.program = p, !.pc = pc,
                                    !.map = map]
  <2>2. server' = [server EXCEPT ![s] = x]
    BY <2>1
  <2>3. pc \in Addresses /\ map \in SUBSET Addresses
    <3>1. DOMAIN p.lineOf \subseteq Nat \ {0} /\ DOMAIN p.lineOf # {}
      BY WebUIAssumption
    <3>2. pc \in DOMAIN p.lineOf
      BY <3>1, MinIsMember
    <3> QED BY <3>1, <3>2 DEF Addresses
  <2> HIDE DEF pc, map
  <2>4. x \in SessionType /\ x.steps = server[s].steps
    BY <1>2, <2>3 DEF SessionType
  <2> HIDE DEF x
  <2> QED BY <1>1, <1>2, <1>3, <2>2, <2>4 DEF CommandEnded
<1> QED BY <1>4, <1>5 DEF EndCompile

(* Addresses of the listing.                                                 *)
LEMMA ListedAddresses ==
  ASSUME NEW x \in SessionType
  PROVE  Listed(x) \subseteq Addresses /\ x.program.returns \subseteq Addresses
<1>1. x.program \in Programs \union {NoProgram}
  BY DEF SessionType
<1>2. CASE x.program \in Programs
  <2>1. Listed(x) \subseteq Addresses
    BY <1>2 DEF Listed, Addresses
  <2>2. x.program.returns \subseteq Listed(x)
    BY <1>2, WebUIAssumption DEF Listed
  <2> QED BY <2>1, <2>2
<1>3. CASE x.program = NoProgram
  <2>1. /\ \A i \in DOMAIN NoProgram.listing : NoProgram.listing[i] = -1
        /\ NoProgram.returns = {}
    BY DEF NoProgram
  <2> QED BY <1>3, <2>1 DEF Listed
<1> QED BY <1>1, <1>2, <1>3

(* The breakpoints a step leaves are addresses.                              *)
LEMMA StepMapsTypes ==
  ASSUME NEW x \in SessionType, NEW map \in StepMaps(x)
  PROVE  map \in SUBSET Addresses
<1> DEFINE applied == (x.map \union x.add) \ x.remove
<1>1. map \subseteq applied \union x.program.returns
  BY DEF StepMaps
<1>2. applied \subseteq Addresses
  BY DEF SessionType
<1>3. x.program.returns \subseteq Addresses
  BY ListedAddresses
<1> QED BY <1>1, <1>2, <1>3

(* A step is executed.                                                       *)
LEMMA StepCommandEnds ==
  ASSUME Inv, NEW s \in Session, EndStep(s)
  PROVE  \E x \in SessionType : CommandEnded(s, x)
<1>1. server[s].steps > 0
  BY DEF EndStep
<1>2. /\ server[s] \in SessionType /\ server[s].steps \in 0..MaxPending
      /\ server[s].st = "ready"
  BY <1>1, SessionTypes DEF Inv, ServerAgrees
<1> DEFINE n == server[s].steps - 1
<1>3. n \in 0..MaxPending /\ n <= server[s].steps
  BY <1>1, <1>2, WebUIAssumption
<1>4. CASE server' = [server EXCEPT ![s].steps = @ - 1, ![s].done = TRUE]
  <2> DEFINE end == TRUE
             x == [server[s] EXCEPT !.steps = n, !.done = end]
  <2>1. server' = [server EXCEPT ![s] = x] /\ end \in BOOLEAN
    BY <1>4
  <2> HIDE DEF n, end
  <2>2. x \in SessionType /\ x.steps = n /\ x.st = "ready"
    BY <1>2, <1>3, <2>1 DEF SessionType
  <2> HIDE DEF x
  <2> QED BY <1>2, <1>3, <2>1, <2>2 DEF CommandEnded
<1>5. CASE \E map \in StepMaps(server[s]), pc \in Listed(server[s]) \union {Unlisted},
              done \in BOOLEAN :
             server' = [server EXCEPT ![s] = Stepped(@, map, pc, done)]
  <2>1. PICK map \in StepMaps(server[s]), pc \in Listed(server[s]) \union {Unlisted},
             done \in BOOLEAN :
          server' = [server EXCEPT ![s] = Stepped(@, map, pc, done)]
    BY <1>5
  <2> DEFINE none == {}
             x == [server[s] EXCEPT !.steps = n, !.map = map, !.add = none,
                                    !.remove = none, !.pc = pc, !.done = done]
  <2>2. server' = [server EXCEPT ![s] = x] /\ none \in SUBSET Addresses
    BY <2>1 DEF Stepped
  <2>3. map \in SUBSET Addresses
    BY <1>2, StepMapsTypes
  <2>4. pc \in Addresses \union {Unlisted}
    BY <1>2, ListedAddresses
  <2> HIDE DEF n, none
  <2>5. x \in SessionType /\ x.steps = n /\ x.st = "ready"
    BY <1>2, <1>3, <2>2, <2>3, <2>4 DEF SessionType
  <2> HIDE DEF x
  <2> QED BY <1>2, <1>3, <2>2, <2>5 DEF CommandEnded
<1> QED BY <1>4, <1>5 DEF EndStep

(* A line of input is read.                                                  *)
LEMMA InputEnds ==
  ASSUME Inv, NEW s \in Session, EndInput(s)
  PROVE  \E x \in SessionType : CommandEnded(s, x)
<1>1. /\ server[s] \in SessionType /\ server[s].steps \in 0..MaxPending
      /\ server[s].inputs \in 0..MaxPending /\ server[s].inputs > 0
      /\ (server[s].steps > 0 => server[s].st = "ready")
  BY SessionTypes DEF EndInput, Inv, ServerAgrees
<1> DEFINE n == server[s].inputs - 1
           x == [server[s] EXCEPT !.inputs = n]
<1>2. server' = [server EXCEPT ![s] = x]
  BY DEF EndInput
<1>3. n \in 0..MaxPending /\ server[s].steps <= server[s].steps
  BY <1>1, WebUIAssumption
<1> HIDE DEF n
<1>4. x \in SessionType /\ x.steps = server[s].steps /\ x.st = server[s].st
  BY <1>1, <1>3 DEF SessionType
<1> HIDE DEF x
<1>5. \/ x.st \in {"none", "gone"} \/ server[s].st \notin {"none", "gone"}
  BY <1>4
<1> QED BY <1>1, <1>2, <1>3, <1>4, <1>5 DEF CommandEnded

(* A command ends.                                                           *)
LEMMA CommandEnds ==
  ASSUME Inv, NEW s \in Session, EndCommand(s)
  PROVE  \E x \in SessionType : CommandEnded(s, x)
BY CompileEnds, StepCommandEnds, InputEnds DEF EndCommand

(* A session that is not there.                                              *)
LEMMA NoSessionType == NoSession \in SessionType /\ NoSession.steps = 0
<1>1. 0 \in 0..MaxPending
  BY WebUIAssumption
<1> QED BY <1>1 DEF NoSession, SessionType

(* One that is gone.                                                         *)
LEMMA GoneType ==
  LET x == [NoSession EXCEPT !.st = "gone"] IN
  x \in SessionType /\ x.st = "gone" /\ x.steps = 0
BY NoSessionType DEF SessionType

\* Session s is made for request r.
NewSession(r, s) ==
  /\ server[s].st = "none"
  /\ server' = [t \in Session |->
       IF t = s THEN [NoSession EXCEPT !.st = "compile",
                                       !.text = r.kind = "compile"]
       ELSE IF single /\ t \in Live THEN [NoSession EXCEPT !.st = "gone"]
       ELSE server[t]]
  /\ Answered(r, [Answer EXCEPT !.ok = TRUE,
                               !.session = IF single THEN NoName ELSE s])

(* A new session: with a server of one it is the only one left.              *)
LEMMA NewSessionKeeps ==
  ASSUME Inv, NEW r \in Outstanding(ui), NEW s \in Session, NewSession(r, s),
         r.resp = NoAnswer, r.kind \in {"compile", "upload"}, Unchanging
  PROVE  Inv'
<1> DEFINE a == [Answer EXCEPT !.ok = TRUE, !.session = IF single THEN NoName ELSE s]
           text == r.kind = "compile"
           new == [NoSession EXCEPT !.st = "compile", !.text = text]
           gone == [NoSession EXCEPT !.st = "gone"]
<1>3. a \in AnswerType
  <2> DEFINE ok == TRUE
             name == IF single THEN NoName ELSE s
  <2>1. ok \in BOOLEAN /\ name \in Session \union {NoName}
    OBVIOUS
  <2>2. a = [Answer EXCEPT !.ok = ok, !.session = name]
    OBVIOUS
  <2> HIDE DEF ok, name, a
  <2> QED BY <2>1, <2>2 DEF Answer, AnswerType
<1>4. Answered(r, a)
  BY DEF NewSession
<1> HIDE DEF a
<1>5. text \in BOOLEAN
  OBVIOUS
<1>6. server' = [t \in Session |->
        IF t = s THEN new ELSE IF single /\ t \in Live THEN gone ELSE server[t]]
  BY DEF NewSession
<1> HIDE DEF text
<1>7. /\ new \in SessionType /\ new.st = "compile" /\ new.steps = 0
      /\ gone \in SessionType /\ gone.st = "gone" /\ gone.steps = 0
  BY <1>5, NoSessionType, GoneType DEF SessionType
<1> HIDE DEF new, gone
<1>8. server \in [Session -> SessionType] /\ ServerAgrees
  BY DEF Inv
<1>9. server' \in [Session -> SessionType]
  BY <1>6, <1>7, <1>8
<1>10. \A t \in Session : server'[t].steps > 0 =>
         server'[t] = server[t] /\ server'[t].steps = server[t].steps
  BY <1>6, <1>7
<1>11. ServerAgrees'
  <2>1. single' => Live' = {s}
    BY <1>6, <1>7 DEF Live, Unchanging
  <2> QED BY <1>8, <1>10, <2>1 DEF ServerAgrees
<1>12. StepsAnswered(r, a)
  BY <1>10 DEF StepsAnswered
<1> QED BY <1>3, <1>4, <1>9, <1>11, <1>12, AnswerKeeps

(* The server is not changed by an answer without the state.                 *)
LEMMA ReadKeeps ==
  ASSUME Inv, NEW r \in Outstanding(ui), r.resp = NoAnswer, NEW a \in AnswerType,
         Answered(r, a), Unchanging, UNCHANGED server,
         r.kind = "step-state" =>
           ~a.ok \/ \A s \in Named(r.sid) : server[s].steps = 0
  PROVE  Inv'
<1>1. server' \in [Session -> SessionType] /\ ServerAgrees'
  BY DEF Inv, ServerAgrees, Live, Unchanging
<1>2. Named(r.sid)' = Named(r.sid)
  BY DEF Named, Live, Unchanging
<1>3. StepsAnswered(r, a)
  BY <1>2 DEF StepsAnswered
<1> QED BY <1>1, <1>3, AnswerKeeps

(* A compilation is refused, or gets a session.                              *)
LEMMA ServeCompileKeeps ==
  ASSUME Inv, NEW r \in Outstanding(ui), ServeCompile(r) PROVE Inv'
<1>1. r.resp = NoAnswer /\ r.kind \in {"compile", "upload"} /\ Unchanging
  BY DEF ServeCompile, Waiting
<1>2. CASE Answered(r, Answer) /\ UNCHANGED server
  <2>1. Answer \in AnswerType
    BY DEF Answer, AnswerType
  <2> QED BY <1>1, <1>2, <2>1, ReadKeeps
<1>3. CASE \E s \in Session : NewSession(r, s)
  BY <1>1, <1>3, NewSessionKeeps
<1> QED BY <1>2, <1>3 DEF ServeCompile, NewSession
(* There is no state to tell.                                                *)
LEMMA ServeNoStateKeeps ==
  ASSUME Inv, NEW r \in Outstanding(ui), ServeNoState(r) PROVE Inv'
<1>1. r.resp = NoAnswer /\ Unchanging /\ UNCHANGED server
  BY DEF ServeNoState, Waiting
<1> DEFINE again == TRUE
           a == [Answer EXCEPT !.retry = again]
<1>2. Answered(r, Answer) \/ Answered(r, a)
  BY DEF ServeNoState
<1>3. again \in BOOLEAN
  OBVIOUS
<1> HIDE DEF again
<1>4. Answer \in AnswerType /\ ~Answer.ok /\ a \in AnswerType /\ ~a.ok
  BY <1>3 DEF Answer, AnswerType
<1> HIDE DEF a
<1> QED BY <1>1, <1>2, <1>4, ReadKeeps

(* The last command ends between the two looks: no step is left to be told.  *)
LEMMA ServeLateKeeps ==
  ASSUME Inv, NEW r \in Outstanding(ui), ServeLate(r) PROVE Inv'
<1>1. r.resp = NoAnswer /\ Answered(r, Answer) /\ Remaining
  BY DEF ServeLate, Waiting, Remaining
<1>2. PICK s \in Named(r.sid) : EndCommand(s) /\ ~Pending(server'[s])
  BY DEF ServeLate
<1>3. s \in Session
  BY DEF Named, Live
<1>4. PICK x \in SessionType : CommandEnded(s, x)
  BY <1>2, <1>3, CommandEnds
<1>5. /\ server' \in [Session -> SessionType] /\ ServerAgrees'
      /\ server'[s] = x /\ \A t \in Session \ {s} : server'[t] = server[t]
  BY <1>1, <1>3, <1>4, SessionChanged DEF CommandEnded, Remaining
<1>6. ~(server'[s].steps > 0)
  BY <1>2 DEF Pending
<1>7. Answer \in AnswerType
  BY DEF Answer, AnswerType
<1>8. \A t \in Named(r.sid) : t = s
  BY NamedIsOne DEF Inv
<1>9. StepsAnswered(r, Answer)
  BY <1>5, <1>6, <1>8 DEF StepsAnswered
<1> QED BY <1>1, <1>5, <1>7, <1>9, AnsweredKeeps

(* The state is told of a session with no step to come.                      *)
LEMMA ServeStateKeeps ==
  ASSUME Inv, NEW r \in Outstanding(ui), ServeState(r) PROVE Inv'
<1>1. r.resp = NoAnswer /\ Unchanging /\ UNCHANGED server
  BY DEF ServeState, Waiting
<1>2. PICK s \in Named(r.sid) :
        /\ ~Pending(server[s])
        /\ Answered(r, IF r.kind = "session-state" THEN FullState(server[s])
                      ELSE StepState(server[s]))
  BY DEF ServeState
<1>3. s \in Session /\ server[s] \in SessionType
  BY <1>2, SessionTypes DEF Named, Live
<1> DEFINE a == IF r.kind = "session-state" THEN FullState(server[s])
                ELSE StepState(server[s])
<1>4. a \in AnswerType /\ Answered(r, a)
  BY <1>2, <1>3, StateTypes
<1> HIDE DEF a
<1>5. \A t \in Named(r.sid) : server[t].steps = 0
  <2>1. \A t \in Named(r.sid) : t = s
    BY <1>2, NamedIsOne DEF Inv
  <2>2. server[s].steps \in Nat /\ ~(server[s].steps > 0)
    BY <1>2, <1>3, WebUIAssumption DEF Pending, SessionType
  <2> QED BY <2>1, <2>2
<1> QED BY <1>1, <1>4, <1>5, ReadKeeps

(* Its failures are the last that is read of a session.                      *)
LEMMA ServeFailuresKeeps ==
  ASSUME Inv, NEW r \in Outstanding(ui), ServeFailures(r) PROVE Inv'
<1>1. r.resp = NoAnswer /\ r.kind = "session-state" /\ Unchanging
  BY DEF ServeFailures, Waiting
<1>2. PICK s \in Named(r.sid), line \in {0, 1} :
        /\ server' = [server EXCEPT ![s] = [NoSession EXCEPT !.st = "gone"]]
        /\ Answered(r, Failures(line))
  BY DEF ServeFailures
<1> DEFINE x == [NoSession EXCEPT !.st = "gone"]
           a == Failures(line)
<1>3. x \in SessionType /\ x.st = "gone" /\ x.steps = 0
  BY GoneType
<1>4. a \in AnswerType
  <2> DEFINE ok == TRUE
  <2>1. ok \in BOOLEAN /\ line \in Nat
    OBVIOUS
  <2>2. a = [Answer EXCEPT !.ok = ok, !.line = line]
    BY DEF Failures
  <2> HIDE DEF ok, a
  <2> QED BY <2>1, <2>2, PlainAnswers
<1>5. s \in Session /\ server' = [server EXCEPT ![s] = x] /\ Answered(r, a)
  BY <1>2 DEF Named, Live
<1> HIDE DEF x, a
<1>6. /\ server' \in [Session -> SessionType] /\ ServerAgrees'
      /\ server'[s] = x /\ \A t \in Session \ {s} : server'[t] = server[t]
  <2>1. /\ single' = single /\ (x.steps > 0 => x.st = "ready")
        /\ x.st \in {"none", "gone"} \/ server[s].st \notin {"none", "gone"}
    BY <1>1, <1>3 DEF Unchanging
  <2> QED BY <1>3, <1>5, <2>1, SessionChanged
<1>7. StepsAnswered(r, a)
  BY <1>1, <1>3, <1>6 DEF StepsAnswered
<1> QED BY <1>1, <1>4, <1>5, <1>6, <1>7, AnswerKeeps

(* A step is queued, unless the session is not there.                        *)
LEMMA ServeStepKeeps ==
  ASSUME Inv, NEW r \in Outstanding(ui), ServeStep(r) PROVE Inv'
<1>1. r.resp = NoAnswer /\ r.kind = "step" /\ Unchanging
  BY DEF ServeStep, Waiting
<1>2. CASE Answered(r, Answer) /\ UNCHANGED server
  <2>1. Answer \in AnswerType
    BY DEF Answer, AnswerType
  <2> QED BY <1>1, <1>2, <2>1, ReadKeeps
<1>3. CASE \E s \in Named(r.sid) :
             /\ server[s].st = "ready" /\ server[s].steps < MaxPending
             /\ server' = [server EXCEPT ![s].steps = @ + 1]
             /\ Answered(r, [Answer EXCEPT !.ok = TRUE])
  <2>1. PICK s \in Named(r.sid) :
          /\ server[s].st = "ready" /\ server[s].steps < MaxPending
          /\ server' = [server EXCEPT ![s].steps = @ + 1]
          /\ Answered(r, [Answer EXCEPT !.ok = TRUE])
    BY <1>3
  <2>2. s \in Session /\ server[s] \in SessionType
    BY <2>1, SessionTypes DEF Named, Live
  <2> DEFINE n == server[s].steps + 1
             x == [server[s] EXCEPT !.steps = n]
             ok == TRUE
             a == [Answer EXCEPT !.ok = ok]
  <2>3. n \in 0..MaxPending
    BY <2>1, <2>2, WebUIAssumption DEF SessionType
  <2>4. server' = [server EXCEPT ![s] = x] /\ Answered(r, a)
    BY <2>1
  <2>5. ok \in BOOLEAN /\ ok
    OBVIOUS
  <2> HIDE DEF n, ok
  <2>6. x \in SessionType /\ x.st = server[s].st /\ x.steps = n
    BY <2>2, <2>3 DEF SessionType
  <2>7. a \in AnswerType /\ a.ok
    BY <2>5 DEF Answer, AnswerType
  <2> HIDE DEF x, a
  <2>8. /\ server' \in [Session -> SessionType] /\ ServerAgrees'
        /\ server'[s] = x /\ \A t \in Session \ {s} : server'[t] = server[t]
    BY <1>1, <2>1, <2>2, <2>4, <2>6, SessionChanged DEF Unchanging
  <2>9. s \in Named(r.sid)'
    BY <1>1, <2>1, <2>2, <2>6, <2>8 DEF Named, Live, Unchanging
  <2>10. StepsAnswered(r, a)
    BY <1>1, <2>6, <2>7, <2>8, <2>9 DEF StepsAnswered, n
  <2> QED BY <1>1, <2>4, <2>7, <2>8, <2>10, AnswerKeeps
<1> QED BY <1>2, <1>3 DEF ServeStep

(* A session is told to stop.                                                *)
LEMMA ServeStopKeeps ==
  ASSUME Inv, NEW r \in Outstanding(ui), ServeStop(r) PROVE Inv'
<1>1. r.resp = NoAnswer /\ r.kind = "stop" /\ Unchanging /\ Answered(r, Answer)
  BY DEF ServeStop, Waiting
<1>2. server \in [Session -> SessionType] /\ ServerAgrees
  BY DEF Inv
<1>3. server' = [s \in Session |-> IF s \in Named(r.sid)
                                   THEN [server[s] EXCEPT !.stop = TRUE] ELSE server[s]]
  BY DEF ServeStop
<1>4. \A s \in Session :
        /\ [server[s] EXCEPT !.stop = TRUE] \in SessionType
        /\ [server[s] EXCEPT !.stop = TRUE].st = server[s].st
        /\ [server[s] EXCEPT !.stop = TRUE].steps = server[s].steps
  BY <1>2 DEF SessionType
<1>5. \A s \in Session : /\ server'[s] \in SessionType
                         /\ server'[s].st = server[s].st
                         /\ server'[s].steps = server[s].steps
  BY <1>2, <1>3, <1>4
<1>6. server' \in [Session -> SessionType]
  BY <1>3, <1>5
<1>7. ServerAgrees'
  BY <1>1, <1>2, <1>5 DEF ServerAgrees, Live, Unchanging
<1>8. Answer \in AnswerType /\ StepsAnswered(r, Answer)
  BY <1>1, <1>5 DEF StepsAnswered, Answer, AnswerType
<1> QED BY <1>1, <1>6, <1>7, <1>8, AnswerKeeps

(* An address is one of those of the program.                                *)
LEMMA BkptAddressType ==
  ASSUME NEW x \in SessionType, NEW r, RequestType(r), r.kind = "breakpoint"
  PROVE  BkptAddress(x, r.arg) \in Addresses \union {Unlisted}
<1>1. r.arg.byLine \/ r.arg.at \in Addresses \union {Unlisted}
  BY DEF RequestType
<1> DEFINE code == {pc \in DOMAIN x.program.lineOf :
                      x.program.lineOf[pc] = r.arg.at}
<1>2. code \subseteq Addresses /\ code \subseteq Nat
  <2>1. x.program \in Programs \union {NoProgram}
    BY DEF SessionType
  <2>2. CASE x.program \in Programs
    <3>1. DOMAIN x.program.lineOf \subseteq Nat \ {0}
      BY <2>2, WebUIAssumption
    <3>2. DOMAIN x.program.lineOf \subseteq Addresses
      BY <2>2, <3>1 DEF Addresses
    <3> QED BY <3>1, <3>2
  <2>3. CASE x.program = NoProgram
    <3>1. DOMAIN x.program.lineOf = {}
      BY <2>3 DEF NoProgram
    <3> QED BY <3>1
  <2> QED BY <2>1, <2>2, <2>3
<1>3. BkptAddress(x, r.arg) = IF ~r.arg.byLine THEN r.arg.at
                              ELSE IF code = {} THEN Unlisted ELSE Min(code)
  BY DEF BkptAddress
<1> HIDE DEF code
<1>4. code # {} => Min(code) \in code
  BY <1>2, MinIsMember
<1> QED BY <1>1, <1>2, <1>3, <1>4

(* A breakpoint is set or removed in the session.                            *)
LEMMA BreakpointType ==
  ASSUME NEW x \in SessionType, NEW r, RequestType(r), r.kind = "breakpoint"
  PROVE  LET y == Breakpoint(x, r.arg) IN
         y \in SessionType /\ y.st = x.st /\ y.steps = x.steps
<1> DEFINE a == BkptAddress(x, r.arg)
           add == x.add \union {a}
           left == x.add \ {a}
           remove == x.remove \union {a}
           y == Breakpoint(x, r.arg)
<1>1. y = IF a = Unlisted THEN x
          ELSE IF r.arg.set THEN [x EXCEPT !.add = add]
          ELSE [x EXCEPT !.add = left, !.remove = remove]
  BY DEF Breakpoint
<1>2. a \in Addresses \union {Unlisted}
  BY BkptAddressType
<1> HIDE DEF a, y
<1>3. CASE a = Unlisted
  BY <1>1, <1>3 DEF y
<1>4. CASE a # Unlisted
  <2>1. /\ add \in SUBSET Addresses /\ left \in SUBSET Addresses
        /\ remove \in SUBSET Addresses
    BY <1>2, <1>4 DEF SessionType
  <2> HIDE DEF add, left, remove
  <2>2. CASE r.arg.set
    BY <1>1, <1>4, <2>1, <2>2 DEF SessionType, y
  <2>3. CASE ~r.arg.set
    <3> DEFINE z == [x EXCEPT !.add = left, !.remove = remove]
    <3>1. z \in SessionType /\ z.st = x.st /\ z.steps = x.steps
      BY <2>1 DEF SessionType
    <3>2. y = z
      BY <1>1, <1>4, <2>3
    <3> HIDE DEF z
    <3> QED BY <3>1, <3>2 DEF y
  <2> QED BY <2>2, <2>3
<1> QED BY <1>3, <1>4

(* What a command changes of a session that has no step of it.               *)
LEMMA CommandKeeps ==
  ASSUME Inv, NEW r \in Outstanding(ui), r.resp = NoAnswer,
         r.kind \in {"breakpoint", "stdin"}, NEW s \in Named(r.sid),
         NEW x \in SessionType, x.st = server[s].st, x.steps = server[s].steps,
         server[s].st = "ready", server' = [server EXCEPT ![s] = x],
         NEW a \in AnswerType, Answered(r, a), Unchanging
  PROVE  Inv'
<1>1. s \in Session /\ single' = single
  BY DEF Named, Live, Unchanging
<1>2. x.steps > 0 => x.st = "ready"
  OBVIOUS
<1>3. /\ server' \in [Session -> SessionType] /\ ServerAgrees'
      /\ server'[s] = x /\ \A t \in Session \ {s} : server'[t] = server[t]
  <2>1. server[s].st \notin {"none", "gone"}
    OBVIOUS
  <2> QED BY <1>1, <1>2, <2>1, SessionChanged
<1>4. \A t \in Session : server'[t].steps = server[t].steps
  BY <1>3
<1>5. StepsAnswered(r, a)
  BY <1>4 DEF StepsAnswered
<1> QED BY <1>3, <1>5, AnswerKeeps

(* A breakpoint is queued, and shown with the rest.                          *)
LEMMA ServeBkptKeeps ==
  ASSUME Inv, NEW r \in Outstanding(ui), ServeBkpt(r) PROVE Inv'
<1>1. r.resp = NoAnswer /\ r.kind = "breakpoint" /\ Unchanging
  BY DEF ServeBkpt, Waiting
<1>2. RequestType(r)
  BY DEF Inv, PageInv, PageTypes, RequestTypes
<1>3. CASE Answered(r, [Answer EXCEPT !.error = TRUE]) /\ UNCHANGED server
  <2> DEFINE error == TRUE
             a == [Answer EXCEPT !.error = error]
  <2>1. error \in BOOLEAN /\ Answered(r, a)
    BY <1>3
  <2> HIDE DEF error
  <2>2. a \in AnswerType
    BY <2>1 DEF Answer, AnswerType
  <2> HIDE DEF a
  <2> QED BY <1>1, <1>3, <2>1, <2>2, ReadKeeps
<1>4. CASE \E s \in Named(r.sid) :
             /\ server[s].st = "ready"
             /\ server' = [server EXCEPT ![s] = Breakpoint(@, r.arg)]
             /\ Answered(r, WithBreakpoints(
                  [Answer EXCEPT !.ok = r.arg.byLine \/ r.arg.at # Unlisted],
                  server'[s]))
  <2>1. PICK s \in Named(r.sid) :
          /\ server[s].st = "ready"
          /\ server' = [server EXCEPT ![s] = Breakpoint(@, r.arg)]
          /\ Answered(r, WithBreakpoints(
               [Answer EXCEPT !.ok = r.arg.byLine \/ r.arg.at # Unlisted],
               server'[s]))
    BY <1>4
  <2>2. s \in Session /\ server[s] \in SessionType
    BY <2>1, SessionTypes DEF Named, Live
  <2> DEFINE x == Breakpoint(server[s], r.arg)
             ok == r.arg.byLine \/ r.arg.at # Unlisted
             b == [Answer EXCEPT !.ok = ok]
             a == WithBreakpoints(b, x)
  <2>3. server' = [server EXCEPT ![s] = x]
    BY <2>1
  <2>4. x \in SessionType /\ x.st = server[s].st /\ x.steps = server[s].steps
    BY <1>1, <1>2, <2>2, BreakpointType
  <2> HIDE DEF x
  <2>5. server'[s] = x
    BY <2>2, <2>3 DEF Inv
  <2>6. ok \in BOOLEAN
    BY <1>1, <1>2 DEF RequestType
  <2>7. Answered(r, a)
    BY <2>1, <2>5
  <2> HIDE DEF ok
  <2>8. b \in AnswerType
    BY <2>6 DEF Answer, AnswerType
  <2> HIDE DEF b
  <2>9. a \in AnswerType
    BY <2>4, <2>8, BreakpointsType
  <2> HIDE DEF a
  <2> QED BY <1>1, <2>1, <2>3, <2>4, <2>7, <2>9, CommandKeeps
<1> QED BY <1>3, <1>4 DEF ServeBkpt

(* A line of input is queued.                                                *)
LEMMA ServeStdinKeeps ==
  ASSUME Inv, NEW r \in Outstanding(ui), ServeStdin(r) PROVE Inv'
<1>1. r.resp = NoAnswer /\ r.kind = "stdin" /\ Unchanging
  BY DEF ServeStdin, Waiting
<1>2. CASE Answered(r, Answer) /\ UNCHANGED server
  <2>1. Answer \in AnswerType
    BY DEF Answer, AnswerType
  <2> QED BY <1>1, <1>2, <2>1, ReadKeeps
<1>3. CASE \E s \in Named(r.sid) :
             /\ server[s].st = "ready" /\ server[s].inputs < MaxPending
             /\ server' = [server EXCEPT ![s].inputs = @ + 1]
             /\ Answered(r, [Answer EXCEPT !.ok = TRUE])
  <2>1. PICK s \in Named(r.sid) :
          /\ server[s].st = "ready" /\ server[s].inputs < MaxPending
          /\ server' = [server EXCEPT ![s].inputs = @ + 1]
          /\ Answered(r, [Answer EXCEPT !.ok = TRUE])
    BY <1>3
  <2>2. s \in Session /\ server[s] \in SessionType
    BY <2>1, SessionTypes DEF Named, Live
  <2> DEFINE n == server[s].inputs + 1
             x == [server[s] EXCEPT !.inputs = n]
             ok == TRUE
             a == [Answer EXCEPT !.ok = ok]
  <2>3. n \in 0..MaxPending
    BY <2>1, <2>2, WebUIAssumption DEF SessionType
  <2>4. server' = [server EXCEPT ![s] = x] /\ Answered(r, a)
    BY <2>1
  <2>5. ok \in BOOLEAN
    OBVIOUS
  <2> HIDE DEF n, ok
  <2>6. x \in SessionType /\ x.st = server[s].st /\ x.steps = server[s].steps
    BY <2>2, <2>3 DEF SessionType
  <2>7. a \in AnswerType
    BY <2>5 DEF Answer, AnswerType
  <2> HIDE DEF x, a
  <2> QED BY <1>1, <2>1, <2>4, <2>6, <2>7, CommandKeeps
<1> QED BY <1>2, <1>3 DEF ServeStdin

(* The server answers one request at a time.                                 *)
LEMMA ServeKeeps == ASSUME Inv, Serve PROVE Inv'
BY ServeCompileKeeps, ServeNoStateKeeps, ServeLateKeeps, ServeStateKeeps,
   ServeFailuresKeeps, ServeStepKeeps, ServeStopKeeps, ServeBkptKeeps, ServeStdinKeeps DEF Serve

-----------------------------------------------------------------------------
(* The worker of a session, and the network *)

(* The worker adds no step, and leaves a session with steps to come ready.   *)
LEMMA SessionWorks ==
  ASSUME Inv, NEW s \in Session, NEW x \in SessionType,
         server' = [server EXCEPT ![s] = x], UNCHANGED ui, Unchanging,
         x.st \in {"none", "gone"} \/ server[s].st \notin {"none", "gone"},
         x.steps > 0 => x.st = "ready", x.steps <= server[s].steps
  PROVE  Inv'
<1>1. /\ server' \in [Session -> SessionType] /\ ServerAgrees'
      /\ server'[s] = x /\ \A t \in Session \ {s} : server'[t] = server[t]
  BY SessionChanged DEF Unchanging
<1>2. ASSUME NEW t \in Session, server'[t].steps > 0
      PROVE  /\ server[t].steps > 0 /\ (server[t].steps = 1 => server'[t].steps = 1)
             /\ \A sid : t \in Named(sid) => t \in Named(sid)'
  <2>1. server[t].steps \in 0..MaxPending /\ x.steps \in 0..MaxPending
    BY SessionTypes DEF SessionType
  <2>2. server'[t].st = "ready" /\ single' = single
    BY <1>1, <1>2 DEF ServerAgrees, Unchanging
  <2>3. server'[t].steps <= server[t].steps /\ server'[t].steps \in 0..MaxPending
    BY <1>1, <2>1
  <2> QED BY <1>2, <2>1, <2>2, <2>3, WebUIAssumption DEF Named, Live
<1>3. StepsAsked(ui) => StepsAsked(ui)'
  BY <1>2 DEF StepsAsked, StepUnderWay
<1> QED BY <1>1, <1>3 DEF Inv, Unchanging

(* The worker's part is done.                                                *)
LEMMA CommandDoneKeeps ==
  ASSUME Inv, NEW s \in Session, CompileDone(s) \/ StepDone(s) \/ InputDone(s)
  PROVE  Inv'
<1>1. EndCommand(s) /\ UNCHANGED ui /\ Unchanging
  BY DEF CompileDone, StepDone, InputDone, EndCommand
<1>2. PICK x \in SessionType : CommandEnded(s, x)
  BY <1>1, CommandEnds
<1> QED BY <1>1, <1>2, SessionWorks DEF CommandEnded

(* A session that was told to stop goes away.                                *)
LEMMA ReapKeeps ==
  ASSUME Inv, NEW s \in Session, Reap(s) PROVE Inv'
<1>1. UNCHANGED ui /\ Unchanging
  BY DEF Reap
<1> DEFINE stop == TRUE
           x == [NoSession EXCEPT !.st = "gone", !.stop = stop]
<1>2. stop \in BOOLEAN
  OBVIOUS
<1>3. server' = [server EXCEPT ![s] = x]
  BY DEF Reap
<1> HIDE DEF stop
<1>4. x \in SessionType /\ x.st = "gone" /\ x.steps = 0
  BY <1>2, NoSessionType DEF SessionType
<1>5. server[s].steps \in 0..MaxPending
  BY SessionTypes
<1> HIDE DEF x
<1>6. /\ x.steps <= server[s].steps
      /\ x.st \in {"none", "gone"} /\ (x.steps > 0 => x.st = "ready")
  BY <1>4, <1>5, WebUIAssumption
<1> QED BY <1>1, <1>3, <1>4, <1>6, SessionWorks

(* A request fails: its page is told so, and all is excused.                 *)
LEMMA LoseKeeps ==
  ASSUME Inv, NEW r \in Outstanding(ui), Lose(r) PROVE Inv'
<1> DEFINE a == [is |-> "error"]
           q == [r EXCEPT !.resp = a]
           v == [ui EXCEPT !.requests = (@ (-) SetToBag({r})) (+) SetToBag({q})]
<1>1. /\ ui' = v /\ r.live /\ excused' = TRUE
      /\ UNCHANGED <<server, single, overlap>>
  BY DEF Lose
<1>2. PageTypes(ui) /\ PageAgrees(ui) /\ ~ui.threw /\ AnswersLive(ui)
  BY DEF Inv, PageInv
<1>3. /\ PageTypes(v) /\ SameControl(ui, v) /\ SameTables(ui, v)
      /\ SameEditors(ui, v) /\ SamePolls(ui, v) /\ v.threw = ui.threw
      /\ q.kind = r.kind /\ q.sid = r.sid /\ q.live = r.live /\ q.resp = a
      /\ q \in Outstanding(v) /\ Outstanding(v) \subseteq Outstanding(ui) \union {q}
      /\ Lone(ui) /\ r.live => Lone(v) /\ LiveIn(v) = {q}
  BY <1>2, AnswerComes
<1> HIDE DEF a, q, v
<1>4. PageInv(v)
  BY <1>1, <1>2, <1>3, PagesAlike DEF PageInv, PageAgrees, SameEditors,
     AnswersLive
<1>5. ASSUME ~overlap
      PROVE  OneExchange(v)
  <2>1. OneExchange(ui) /\ r \in LiveIn(ui)
    BY <1>1, <1>5 DEF Inv, LiveIn
  <2>2. Lone(v) /\ LiveIn(v) = {q} /\ ui.pollSession = 0
    BY <1>1, <1>3, <2>1 DEF OneExchange, Lone
  <2>3. SourceLit(v)
    BY <1>3, <2>1, <2>2 DEF OneExchange, SourceLit, AwaitsSession, SamePolls,
       SameEditors
  <2>4. Own(v)
    BY <1>3, <2>1, <2>2 DEF OneExchange, Own, SamePolls, SameControl
  <2> QED BY <2>2, <2>3, <2>4 DEF OneExchange
<1>6. (server \in [Session -> SessionType])' /\ ServerAgrees'
  BY <1>1 DEF Inv, ServerAgrees, Live
<1> QED BY <1>1, <1>4, <1>5, <1>6 DEF Inv

-----------------------------------------------------------------------------
(* The theorems *)

(* At the beginning nothing is shown, asked for or run.                      *)
LEMMA InitInv == Init => Inv
<1> SUFFICES ASSUME Init PROVE Inv
  OBVIOUS
<1>1. /\ ui = Page(NoName) /\ server = [s \in Session |-> NoSession]
      /\ ~overlap /\ ~excused
  BY DEF Init
<1>2. /\ Fresh(ui) /\ ui.hash = NoName /\ ui.requests = EmptyBag
      /\ ui.pollSession = 0 /\ ui.pollStep = 0 /\ ~ui.threw
  BY <1>1 DEF Fresh, Page, PageFields
<1>3. IsABag(EmptyBag) /\ BagToSet(EmptyBag) = {}
  BY DEF EmptyBag, SetToBag, IsABag, BagToSet
<1>4. Outstanding(ui) = {} /\ LiveIn(ui) = {}
  BY <1>2, <1>3 DEF Outstanding, LiveIn
<1>5. RequestTypes(ui)
  BY <1>2, <1>3, <1>4 DEF RequestTypes
<1>6. PageTypes(ui) /\ PageAgrees(ui) /\ Dark(ui.source)
  BY <1>2, <1>5, FreshPage
<1>7. PageInv(ui)
  BY <1>2, <1>4, <1>6 DEF PageInv, AnswersLive
<1>8. OneExchange(ui)
  BY <1>2, <1>4, <1>6 DEF OneExchange, Lone, Own, SourceLit, Dark, OneLit
<1>9. \A s \in Session : server[s] = NoSession
  BY <1>1
<1>10. server \in [Session -> SessionType]
  BY <1>1, NoSessionType
<1>11. ServerAgrees /\ StepsAsked(ui)
  <2>1. \A s \in Session : server[s].steps = 0
    BY <1>9, NoSessionType
  <2>2. Live = {}
    BY <1>9 DEF Live, NoSession
  <2> QED BY <2>1, <2>2 DEF ServerAgrees, StepsAsked
<1> QED BY <1>4, <1>7, <1>8, <1>10, <1>11 DEF Inv

(* Every step keeps the invariant.                                           *)
LEMMA NextInv == Inv /\ [Next]_vars => Inv'
<1> SUFFICES ASSUME Inv, [Next]_vars PROVE Inv'
  OBVIOUS
<1>1. CASE Serve
  BY <1>1, ServeKeeps
<1>2. CASE Browser
  BY <1>2, DeliverKeeps, PollSessionTimerKeeps, PollStepTimerKeeps,
     AutoStepTimerKeeps, FileReadKeeps, StartAppKeeps, PopupLoadedKeeps DEF Browser
<1>3. CASE User
  BY <1>3, PlayClickKeeps, FwdClickKeeps, StopClickKeeps, LoopClickKeeps,
     GutterClickKeeps, StdinEnterKeeps, UploadClickKeeps, ExampleClickKeeps,
     EditKeeps, MoreClickKeeps, PopupClosedKeeps, ReloadKeeps DEF User
<1>4. CASE \E s \in Session : Work(s)
  BY <1>4, CommandDoneKeeps, ReapKeeps DEF Work
<1>5. CASE \E r \in Outstanding(ui) : Lose(r)
  BY <1>5, LoseKeeps
<1>6. CASE UNCHANGED vars
  <2>1. UNCHANGED <<ui, server, single, overlap, excused>>
    BY <1>6 DEF vars
  <2>2. StepsAsked(ui) => StepsAsked(ui)'
    BY <2>1 DEF StepsAsked, StepUnderWay, Named, Live
  <2>3. ServerAgrees'
    BY <2>1 DEF Inv, ServerAgrees, Live
  <2> QED BY <2>1, <2>2, <2>3 DEF Inv
<1> QED BY <1>1, <1>2, <1>3, <1>4, <1>5, <1>6 DEF Next

(* The invariant holds: the editors agree with the listing and the tables,   *)
(* and unless requests overlap there is one exchange at a time.              *)
THEOREM OneExchangeAtATime == Spec => []Inv
BY InitInv, NextInv, PTL DEF Spec

(* Whatever is answered, and in whatever order, the page's variables, the    *)
(* editors, the requests and the sessions have the values the code gives     *)
(* them, and a handler's exception goes no further.                          *)
THEOREM TypesHold == Spec => []TypeOK
<1>1. Inv => TypeOK
  BY DEF Inv, PageInv, TypeOK
<1> QED BY <1>1, OneExchangeAtATime, PTL

(* A set with at most one member.                                            *)
LEMMA AtMostOne ==
  ASSUME NEW S, \A x, y \in S : x = y
  PROVE  Cardinality(S) <= 1
<1>1. CASE S = {}
  BY <1>1, FS_EmptySet
<1>2. CASE S # {}
  <2>1. PICK x \in S : TRUE
    BY <1>2
  <2>2. S = {x}
    BY <2>1
  <2> QED BY <2>2, FS_Singleton
<1> QED BY <1>1, <1>2

(* At most one line of each editor is highlighted, in the source unless      *)
(* requests overlap: commonStateUpdate adds one where none was left.         *)
THEOREM HighlightsTakenBack == Spec => []OneHighlight
<1>1. Inv => OneHighlight
  <2> SUFFICES ASSUME Inv PROVE OneHighlight
    OBVIOUS
  <2>1. OneLit(ui.compiled) /\ (~overlap => OneLit(ui.source))
    BY DEF Inv, PageInv, PageAgrees, OneExchange, SourceLit
  <2>2. ASSUME NEW doc, OneLit(doc)
        PROVE  Cardinality(LinesOf(doc, "highlight")) <= 1
    <3>1. \A i, j \in LinesOf(doc, "highlight") : i = j
      BY <2>2 DEF OneLit, LinesOf
    <3> QED BY <3>1, AtMostOne
  <2> QED BY <2>1, <2>2 DEF OneHighlight
<1> QED BY <1>1, OneExchangeAtATime, PTL

(* The address in the gutter of a line with a breakpoint's marker is that of *)
(* the instruction in the line: a click there removes this breakpoint.       *)
THEOREM MarkersHaveAddresses == Spec => []GutterAddresses
<1>1. Inv => GutterAddresses
  <2> SUFFICES ASSUME Inv, NEW i \in DOMAIN ui.compiled, HasMarker(ui.compiled, i - 1)
               PROVE  Formatter(ui, i) = ui.compiled[i].num /\ Formatter(ui, i) # Unlisted
    BY DEF GutterAddresses
  <2>1. /\ ListingAgrees(ui) /\ ui.lineNumbers \in Seq(Addresses \union {-1})
        /\ ui.compiled \in Seq(LineType(Addresses \union {0}))
    BY DEF Inv, PageInv, PageAgrees, EditorsAgree, PageTypes, EditorTypes
  <2>2. i \in Nat /\ ui.compiled[i].bkpt
    <3>1. i \in Nat
      BY <2>1
    <3>2. (i - 1) + 1 = i
      BY <3>1
    <3> QED BY <3>1, <3>2 DEF HasMarker
  <2>3. /\ i \in DOMAIN ui.lineNumbers /\ ui.lineNumbers[i] # -1
        /\ ui.compiled[i].num = ui.lineNumbers[i]
    BY <2>1, <2>2 DEF ListingAgrees
  <2>4. ui.lineNumbers[i] \in Addresses /\ i <= Len(ui.lineNumbers)
    BY <2>1, <2>3
  <2>5. ui.lineNumbers[i] \in Nat \ {0}
    BY <2>4, ListingTypes
  <2> QED BY <2>2, <2>3, <2>4, <2>5 DEF Formatter, Unlisted
<1> QED BY <1>1, OneExchangeAtATime, PTL

(* An open popup shows what the page shows, whenever it was opened and       *)
(* whatever was received while it loaded.                                    *)
THEOREM PopupAgrees == Spec => []PopupMirrors
<1>1. Inv => PopupMirrors
  <2> SUFFICES ASSUME Inv, ui.popup = "open", ui.last["vars"] # NoData
               PROVE  ui.window = ui.main
    BY DEF PopupMirrors
  <2>1. Mirrored(ui) /\ ui.main \in [Tables -> Data] /\ ui.window \in [Tables -> Data]
    BY DEF Inv, PageInv, PageAgrees, PageTypes, TableTypes
  <2>2. \A t \in Tables : ui.window[t] = ui.main[t]
    BY <2>1 DEF Mirrored, Tables
  <2> QED BY <2>1, <2>2
<1> QED BY <1>1, OneExchangeAtATime, PTL

(* Unless the user or a failure broke into an exchange, the next step is     *)
(* sent when the last was executed.                                          *)
THEOREM StepsOneByOne == Spec => []OneStepAtATime
<1>1. Inv => OneStepAtATime
  <2> SUFFICES ASSUME Inv, ~overlap, ~excused, NEW s \in Session
               PROVE  server[s].steps <= 1
    BY DEF OneStepAtATime
  <2>1. server[s].steps > 0 => server[s].steps = 1
    BY DEF Inv, StepsAsked
  <2>2. server[s].steps \in 0..MaxPending
    BY SessionTypes
  <2> QED BY <2>1, <2>2, WebUIAssumption
<1> QED BY <1>1, OneExchangeAtATime, PTL
=============================================================================
