---------------------------- MODULE GatewayProofs -----------------------------
(***************************************************************************)
(* Proofs that Gateway implements Governance, that what providers and the  *)
(* cache are given has been checked, that a request is counted once and    *)
(* that its messages stay in their region: for any number of requests,     *)
(* targets, attempts, tool rounds and chunks, and for routes of any        *)
(* length.                                                                 *)
(***************************************************************************)
EXTENDS Gateway, WellFoundedInduction, TLAPS

Fields == {"pc", "prof", "msgs", "skip", "round", "plan", "at", "try", "resp", "up", "chunks",
           "answer", "sent", "rated", "paid", "logged", "broke"}

\* What every value of req[r] has, whatever step made it.
Base(q) ==
    /\ q = [f \in Fields |-> q[f]]
    /\ q.resp \in Resps
    /\ ShouldRun(q) => \A x \in q.sent : x.text = "clean"

\* What the position of a request says about its messages and its response.
Placed(q) ==
    /\ q.pc \in Pcs
    /\ q.answer = "none" <=> q.pc # "done"
    /\ q.pc = "idle" => q.round = 0 /\ q.sent = {}
    /\ q.pc \in {"lookup", "exec"} /\ ShouldRun(q) => Worst(q.msgs) = "clean"
    /\ q.pc \in {"finish", "tools"} => Governed(q)
    /\ q.pc = "tools" => Fit(q)
    /\ q.pc = "stream" => q.prof.kind = "stream"

Good(q) == Base(q) /\ Placed(q)

CacheOK ==
    \A k \in DOMAIN cache : cache[k] \in Resps /\ (k[1] \in Guarded => cache[k].text = "clean")

IInv ==
    /\ req = [r \in Requests |-> req[r]]
    /\ \A r \in Requests : Good(req[r])
    /\ CacheOK

-----------------------------------------------------------------------------
(* One request, as Governance sees it *)

Same(p, q) == q.round = p.round /\ Given(q) = Given(p)
Told(p, q) == q.sent = p.sent \/ (Stage(p) = "cleared" /\ \E x : q.sent = p.sent \cup {x})

\* The change of one request from p to q is a step of Governance or none.
Legal(p, q) ==
    \/ Stage(q) = Stage(p) /\ Same(p, q) /\ Told(p, q)
    \/ Stage(p) = "idle" /\ Stage(q) = "checking" /\ Same(p, q) /\ q.sent = p.sent
    \/ Stage(p) = "checking" /\ Stage(q) = "cleared" /\ Same(p, q) /\ q.sent = p.sent
    \/ Stage(p) = "cleared" /\ Stage(q) = "checking" /\ q.round = p.round + 1
       /\ Given(q) = Given(p) /\ q.sent = p.sent
    \/ Stage(p) \in {"idle", "checking", "cleared"} /\ Stage(q) = "answered"
       /\ q.round = p.round /\ Told(p, q)
       /\ Given(q) \in {"refusal"} \cup (IF Stage(p) = "cleared" THEN {"content"} ELSE {})

\* A legal change of one request is a step of Governance.
LEMMA Simulates ==
    ASSUME req = [x \in Requests |-> req[x]], NEW r \in Requests, NEW q,
           Set(r, q), Legal(req[r], q)
    PROVE  [Abstract!Next]_(Abstract!vars)
<1> DEFINE stage == [x \in Requests |-> Stage(req[x])]
           told  == [x \in Requests |-> req[x].round]
           seen  == [x \in Requests |-> req[x].sent]
           given == [x \in Requests |-> Given(req[x])]
<1>1. req'[r] = q /\ \A x \in Requests \ {r} : req'[x] = req[x]
  BY Zenon DEF Set
<1>2. stage' = [stage EXCEPT ![r] = Stage(q)]
  BY Zenon, <1>1
<1>3. told' = [told EXCEPT ![r] = q.round]
  BY Zenon, <1>1
<1>4. seen' = [seen EXCEPT ![r] = q.sent] /\ seen'[r] = q.sent
  BY Zenon, <1>1
<1>5. given' = [given EXCEPT ![r] = Given(q)]
  BY Zenon, <1>1
<1>6. /\ stage[r] = Stage(req[r]) /\ told[r] = req[r].round
      /\ seen[r] = req[r].sent /\ given[r] = Given(req[r])
  OBVIOUS
<1>7. /\ Stage(q) = Stage(req[r]) => stage' = stage
      /\ q.round = req[r].round => told' = told
      /\ q.sent = req[r].sent => seen' = seen
      /\ Given(q) = Given(req[r]) => given' = given
  BY <1>1
<1>8. ASSUME NEW x, q.sent = req[r].sent \cup {x}
      PROVE  Abstract!Sends(r)
  BY Zenon, <1>4, <1>6, <1>8 DEF Abstract!Sends
<1>9. CASE Stage(q) = Stage(req[r]) /\ Same(req[r], q) /\ Told(req[r], q)
  <2>1. CASE q.sent = req[r].sent
    BY Zenon, <1>7, <1>9, <2>1 DEF Same, Abstract!vars
  <2>2. CASE Stage(req[r]) = "cleared" /\ \E x : q.sent = req[r].sent \cup {x}
    <3>1. Abstract!Send(r)
      BY Zenon, <1>6, <1>7, <1>8, <1>9, <2>2 DEF Same, Abstract!Send
    <3> QED
      BY Zenon, <3>1 DEF Abstract!Next
  <2> QED
    BY Zenon, <1>9, <2>1, <2>2 DEF Told
<1>10. CASE Stage(req[r]) = "idle" /\ Stage(q) = "checking" /\ Same(req[r], q)
            /\ q.sent = req[r].sent
  <2>1. Abstract!Submit(r)
    BY Zenon, <1>2, <1>6, <1>7, <1>10 DEF Same, Abstract!Submit, Abstract!Move
  <2> QED
    BY Zenon, <2>1 DEF Abstract!Next
<1>11. CASE Stage(req[r]) = "checking" /\ Stage(q) = "cleared" /\ Same(req[r], q)
            /\ q.sent = req[r].sent
  <2>1. Abstract!Clear(r)
    BY Zenon, <1>2, <1>6, <1>7, <1>11 DEF Same, Abstract!Clear, Abstract!Move
  <2> QED
    BY Zenon, <2>1 DEF Abstract!Next
<1>12. CASE Stage(req[r]) = "cleared" /\ Stage(q) = "checking" /\ q.round = req[r].round + 1
            /\ Given(q) = Given(req[r]) /\ q.sent = req[r].sent
  <2>1. Abstract!Add(r)
    BY Zenon, <1>2, <1>3, <1>6, <1>7, <1>12 DEF Abstract!Add, Abstract!Move
  <2> QED
    BY Zenon, <2>1 DEF Abstract!Next
<1>13. CASE Stage(req[r]) \in {"idle", "checking", "cleared"} /\ Stage(q) = "answered"
            /\ q.round = req[r].round /\ Told(req[r], q)
            /\ Given(q) \in {"refusal"} \cup (IF Stage(req[r]) = "cleared" THEN {"content"} ELSE {})
  <2>1. seen' = seen \/ (stage[r] = "cleared" /\ Abstract!Sends(r))
    BY Zenon, <1>6, <1>7, <1>8, <1>13 DEF Told
  <2>2. CASE Given(q) = "refusal"
    <3>1. Abstract!Refuse(r)
      BY <1>2, <1>5, <1>6, <1>7, <1>13, <2>1, <2>2
      DEF Abstract!Refuse, Abstract!Settle, Abstract!Move
    <3> QED
      BY Zenon, <3>1 DEF Abstract!Next
  <2>3. CASE Given(q) = "content" /\ Stage(req[r]) = "cleared"
    <3>1. Abstract!Deliver(r)
      BY <1>2, <1>5, <1>6, <1>7, <1>13, <2>1, <2>3
      DEF Abstract!Deliver, Abstract!Settle, Abstract!Move
    <3> QED
      BY Zenon, <3>1 DEF Abstract!Next
  <2> QED
    BY <1>13, <2>2, <2>3
<1> QED
  BY Zenon, <1>9, <1>10, <1>11, <1>12, <1>13 DEF Legal

\* A step that changes no request is none of Governance.
LEMMA Stutters ==
    ASSUME req' = req
    PROVE  UNCHANGED Abstract!vars
BY Zenon DEF Abstract!vars

-----------------------------------------------------------------------------
(* What the code does to one request *)

\* Request r, and no other, makes a legal change.
Progress(r) == \E q : Set(r, q) /\ Good(q) /\ Legal(req[r], q)

\* The value of req[r] after Answer(r, q, a).
Ended(q, a) ==
    [q EXCEPT !.pc = "done", !.answer = a, !.msgs = <<>>, !.plan = <<>>,
              !.at = 1, !.try = 1, !.up = "none", !.chunks = 0, !.resp.calls = FALSE]

\* The outcome a request may be given: content only if it is fit.
Deserved(q, a) == a # "none" /\ (a = "ok" => Fit(q))

\* An answered request is good, keeps its history, and has content or a refusal.
LEMMA Ending ==
    ASSUME NEW q, NEW a, Base(q), Deserved(q, a)
    PROVE  /\ Good(Ended(q, a))
           /\ Stage(Ended(q, a)) = "answered"
           /\ Ended(q, a).round = q.round
           /\ Ended(q, a).sent = q.sent
           /\ Given(Ended(q, a)) = IF a = "ok" THEN "content" ELSE "refusal"
<1> DEFINE e == Ended(q, a)
<1>1. e = [f \in Fields |-> e[f]]
  BY DEF Base, Ended, Fields
<1>2. /\ e.pc = "done" /\ e.answer = a /\ e.prof = q.prof /\ e.round = q.round
      /\ e.sent = q.sent /\ e.resp = [q.resp EXCEPT !.calls = FALSE]
  BY Zenon DEF Base, Ended, Fields
<1>3. e.resp \in Resps /\ e.resp.text = q.resp.text
  BY Zenon, <1>2 DEF Base, Resps
<1>4. Base(e)
  BY Zenon, <1>1, <1>2, <1>3 DEF Base, ShouldRun
<1>5. Fit(e) <=> Fit(q)
  BY Zenon, <1>2, <1>3 DEF Fit, ShouldRun
<1>6. Placed(e)
  BY Zenon, <1>2 DEF Placed, Pcs, Deserved
<1>7. Given(e) = IF a = "ok" THEN "content" ELSE "refusal"
  BY Zenon, <1>2, <1>5 DEF Given, Deserved
<1> QED
  BY Zenon, <1>2, <1>4, <1>6, <1>7 DEF Good, Stage

\* An answer is a legal end of a request that has none yet.
LEMMA Answers ==
    ASSUME NEW r \in Requests, NEW q, NEW a, Good(req[r]), req[r].pc # "done",
           Answer(r, q, a), Base(q), Deserved(q, a), q.round = req[r].round, Told(req[r], q),
           a = "ok" => Stage(req[r]) = "cleared"
    PROVE  Progress(r)
<1>1. Set(r, Ended(q, a))
  BY Zenon DEF Answer, Ended
<1>2. Stage(req[r]) \in {"idle", "checking", "cleared"}
  BY Zenon DEF Stage
<1>3. Told(req[r], Ended(q, a))
  <2>1. Ended(q, a).sent = q.sent
    BY Ending
  <2> QED
    BY Zenon, <2>1 DEF Told
<1>4. Legal(req[r], Ended(q, a))
  BY <1>2, <1>3, Ending DEF Legal
<1> QED
  BY Zenon, <1>1, <1>4, Ending DEF Progress

\* A change that Governance does not see.
LEMMA Moves ==
    ASSUME NEW r \in Requests, NEW q, Good(req[r]), Set(r, q), Good(q), req[r].pc # "done",
           Stage(q) = Stage(req[r]), q.round = req[r].round, q.answer = "none",
           Told(req[r], q)
    PROVE  Progress(r)
<1>1. Given(q) = "nothing" /\ Given(req[r]) = "nothing"
  BY Zenon DEF Good, Placed, Given
<1> QED
  BY Zenon, <1>1 DEF Progress, Legal, Same

\* Fit content is delivered, or handed to the tool loop.
LEMMA Delivers ==
    ASSUME NEW r \in Requests, NEW q, Good(req[r]), Stage(req[r]) = "cleared",
           Base(q), Fit(q), Governed(q), q.answer = "none", q.round = req[r].round,
           Told(req[r], q), Delivered(r, q)
    PROVE  Progress(r)
<1>0. req[r].pc # "done"
  BY Zenon DEF Stage
<1>1. CASE q.prof.kind = "chat"
  <2> DEFINE n == [q EXCEPT !.pc = "tools"]
  <2>1. Set(r, n)
    BY Zenon, <1>1 DEF Delivered
  <2>2. n = [f \in Fields |-> n[f]] /\ n.pc = "tools"
        /\ \A f \in Fields \ {"pc"} : n[f] = q[f]
    BY Zenon DEF Base, Fields
  <2>3. /\ n.prof = q.prof /\ n.resp = q.resp /\ n.sent = q.sent /\ n.round = q.round
        /\ n.answer = "none"
    BY Zenon, <2>2 DEF Fields
  <2>4. Good(n)
    BY Zenon, <2>2, <2>3 DEF Good, Base, Placed, ShouldRun, Fit, Governed, Pcs
  <2>5. Stage(n) = "cleared" /\ Told(req[r], n)
    BY Zenon, <2>2, <2>3 DEF Stage, Told
  <2> QED
    BY Zenon, <1>0, <2>1, <2>3, <2>4, <2>5, Moves
<1>2. CASE q.prof.kind # "chat"
  <2>1. Answer(r, q, "ok") /\ Deserved(q, "ok")
    BY Zenon, <1>2 DEF Delivered, Deserved
  <2> QED
    BY <1>0, <2>1, Answers
<1> QED
  BY <1>1, <1>2

\* Arrive
LEMMA Arrives ==
    ASSUME IInv, NEW r \in Requests, NEW p, Arrive(r, p)
    PROVE  Progress(r)
<1> DEFINE q == Fresh(p)
<1>1. Good(req[r]) /\ req[r].pc = "idle"
  BY Zenon DEF IInv, Arrive
<1>2. req[r].round = 0 /\ req[r].sent = {} /\ req[r].answer = "none"
  BY Zenon, <1>1 DEF Good, Placed
<1>3. /\ q = [f \in Fields |-> q[f]] /\ q.resp \in Resps /\ q.sent = {} /\ q.round = 0
      /\ q.pc = "admit" /\ q.answer = "none"
  BY Zenon DEF Fresh, Fields, Resps, NoResp, Texts
<1>4. Good(q)
  BY Zenon, <1>3 DEF Good, Base, Placed, Pcs
<1>5. ASSUME NEW n, Set(r, n), Good(n), n.sent = {}, n.round = 0, n.pc = "admit", n.answer = "none"
      PROVE  Progress(r)
  <2>1. Stage(req[r]) = "idle" /\ Stage(n) = "checking"
        /\ Given(n) = "nothing" /\ Given(req[r]) = "nothing"
    BY Zenon, <1>1, <1>2, <1>5 DEF Stage, Given
  <2> QED
    BY Zenon, <1>2, <1>5, <2>1 DEF Progress, Legal, Same
<1>6. CASE Set(r, q)
  BY <1>3, <1>4, <1>5, <1>6
<1>7. CASE Answer(r, q, "residency_denied")
  BY Zenon, <1>1, <1>2, <1>3, <1>4, <1>7, Answers DEF Good, Deserved, Told
<1>8. ASSUME NEW plan, Set(r, [q EXCEPT !.plan = plan])
      PROVE  Progress(r)
  <2> DEFINE n == [q EXCEPT !.plan = plan]
  <2>1. /\ n = [f \in Fields |-> n[f]] /\ n.resp \in Resps /\ n.sent = {} /\ n.round = 0
        /\ n.pc = "admit" /\ n.answer = "none"
    BY Zenon DEF Fresh, Fields, Resps, NoResp, Texts
  <2>2. Good(n)
    BY Zenon, <2>1 DEF Good, Base, Placed, Pcs
  <2> QED
    BY Zenon, <1>5, <1>8, <2>1, <2>2
<1> QED
  BY Zenon, <1>6, <1>7, <1>8 DEF Arrive

\* A refusal, as it is reported or wrapped by the tool loop.
LEMMA Rejects ==
    ASSUME NEW r \in Requests, NEW q, NEW why, Good(req[r]), req[r].pc # "done",
           Reject(r, q, why), why \notin {"none", "ok"}, Base(q), q.round = req[r].round,
           Told(req[r], q)
    PROVE  Progress(r)
<1>1. PICK a : Answer(r, q, a) /\ a \notin {"none", "ok"}
  BY DEF Reject
<1> QED
  BY Zenon, <1>1, Answers DEF Deserved

\* An update of other fields than the profile, the response and what was sent.
LEMMA Updates ==
    ASSUME NEW p, NEW q, Base(p), q = [f \in Fields |-> q[f]],
           q.prof = p.prof, q.resp \in Resps, q.sent = p.sent
    PROVE  Base(q)
BY Zenon DEF Base, ShouldRun

\* Messages that passed the guardrails hold nothing they would redact or block.
LEMMA Passed ==
    ASSUME NEW q, ShouldRun(q), Worst(q.msgs) # "bad"
    PROVE  Worst(Checked(q)) = "clean"
<1>1. \A i \in DOMAIN q.msgs : q.msgs[i] # "bad"
  BY Zenon DEF Worst
<1>2. Checked(q) = [i \in DOMAIN q.msgs |-> IF q.msgs[i] = "pii" THEN "clean" ELSE q.msgs[i]]
  BY Zenon DEF Checked, Redacted
<1>3. \A i \in DOMAIN Checked(q) : Checked(q)[i] \notin {"bad", "pii"}
  BY <1>1, <1>2
<1> QED
  BY Zenon, <1>3 DEF Worst

\* Admit
LEMMA Admits ==
    ASSUME IInv, NEW r \in Requests, Admit(r)
    PROVE  Progress(r)
<1> DEFINE q == req[r]
           counted == [q EXCEPT !.rated = IF Limited(q) THEN @ + 1 ELSE @]
           n == [counted EXCEPT !.pc = "lookup", !.msgs = Checked(q)]
<1>1. Good(q) /\ Base(q) /\ q.pc = "admit" /\ q.answer = "none"
  BY Zenon DEF IInv, Admit, Good, Placed
<1>2. /\ counted = [f \in Fields |-> counted[f]] /\ counted.prof = q.prof
      /\ counted.resp = q.resp /\ counted.sent = q.sent /\ counted.round = q.round
  BY Zenon, <1>1 DEF Base, Fields
<1>3. Base(counted) /\ Told(q, counted) /\ Told(q, q)
  <2>1. counted.resp \in Resps
    BY Zenon, <1>1, <1>2 DEF Base
  <2> HIDE DEF counted
  <2>2. Base(counted)
    BY <1>1, <1>2, <2>1, Updates
  <2> QED
    BY Zenon, <1>2, <2>2 DEF Told
<1>4. ASSUME NEW why, why \notin {"none", "ok"}, Reject(r, q, why) \/ Reject(r, counted, why)
      PROVE  Progress(r)
  BY Zenon, <1>1, <1>2, <1>3, <1>4, Rejects
<1>5. ASSUME Set(r, n), ShouldRun(q) => Worst(q.msgs) # "bad"
      PROVE  Progress(r)
  <2>1. /\ n = [f \in Fields |-> n[f]] /\ n.prof = q.prof /\ n.resp = q.resp
        /\ n.sent = q.sent /\ n.round = q.round /\ n.pc = "lookup" /\ n.msgs = Checked(q)
        /\ n.answer = "none"
    BY Zenon, <1>1 DEF Base, Fields
  <2>2. ShouldRun(n) = ShouldRun(q) /\ Base(n)
    BY Zenon, <1>1, <2>1, Updates DEF ShouldRun, Base
  <2>3. Placed(n)
    BY <1>5, <2>1, <2>2, Passed DEF Placed, Pcs
  <2>4. Stage(q) = "checking" /\ Stage(n) = "cleared" /\ Given(n) = Given(q)
    BY Zenon, <1>1, <2>1 DEF Stage, Given
  <2>5. Legal(q, n)
    BY Zenon, <2>1, <2>4 DEF Legal, Same
  <2> QED
    BY Zenon, <1>5, <2>2, <2>3, <2>5 DEF Progress, Good
<1>6. PICK rate \in checkRateLimit(q), budget \in checkBudget(q), guard \in checkInputGuardrails(q) :
          IF ~modelAllowed(q) THEN Reject(r, q, "model_not_allowed")
          ELSE IF rate # "ok" THEN Reject(r, counted, rate)
          ELSE IF budget # "ok" THEN Reject(r, counted, budget)
          ELSE IF guard # "ok" THEN Reject(r, counted, guard)
          ELSE Set(r, n)
  BY Zenon DEF Admit
<1>7. rate # "none" /\ budget # "none" /\ guard # "none"
      /\ (guard = "ok" /\ ShouldRun(q) => Worst(q.msgs) # "bad")
  BY Zenon DEF checkRateLimit, checkBudget, checkInputGuardrails
<1> QED
  BY <1>4, <1>5, <1>6, <1>7

\* Hit
LEMMA Hits ==
    ASSUME IInv, NEW r \in Requests, Hit(r)
    PROVE  Progress(r)
<1> DEFINE q == req[r]
           n == [q EXCEPT !.resp = cache[HashRequest(q)]]
<1>1. Good(q) /\ Base(q) /\ q.pc = "lookup" /\ q.answer = "none" /\ Governed(q)
      /\ HashRequest(q) \in DOMAIN cache /\ Delivered(r, n)
  BY Zenon DEF IInv, Hit, Good, Placed
<1>2. cache[HashRequest(q)] \in Resps
      /\ (q.prof.model \in Guarded => cache[HashRequest(q)].text = "clean")
  BY Zenon, <1>1 DEF IInv, CacheOK, HashRequest
<1>3. /\ n = [f \in Fields |-> n[f]] /\ n.prof = q.prof /\ n.resp = cache[HashRequest(q)]
      /\ n.sent = q.sent /\ n.round = q.round /\ n.answer = "none"
  BY Zenon, <1>1 DEF Base, Fields
<1>4. Base(n) /\ Governed(n) /\ Fit(n) /\ Told(q, n) /\ Stage(q) = "cleared"
  BY Zenon, <1>1, <1>2, <1>3, Updates DEF Governed, Fit, ShouldRun, Told, Stage
<1> QED
  BY Zenon, <1>1, <1>3, <1>4, Delivers

\* Miss
LEMMA Misses ==
    ASSUME IInv, NEW r \in Requests, Miss(r)
    PROVE  Progress(r)
<1> DEFINE q == req[r]
<1>1. Good(q) /\ Base(q) /\ q.pc = "lookup" /\ q.answer = "none" /\ Stage(q) = "cleared"
  BY Zenon DEF IInv, Miss, Good, Placed, Stage
<1>2. CASE Answer(r, q, "residency_denied")
  BY Zenon, <1>1, <1>2, Answers DEF Deserved, Told
<1>3. ASSUME NEW plan, Set(r, [q EXCEPT !.pc = "exec", !.plan = plan])
      PROVE  Progress(r)
  <2> DEFINE n == [q EXCEPT !.pc = "exec", !.plan = plan]
  <2>1. /\ n = [f \in Fields |-> n[f]] /\ n.prof = q.prof /\ n.resp = q.resp
        /\ n.sent = q.sent /\ n.round = q.round /\ n.pc = "exec" /\ n.msgs = q.msgs
        /\ n.answer = "none"
    BY Zenon, <1>1 DEF Base, Fields
  <2>2. Base(n) /\ ShouldRun(n) = ShouldRun(q) /\ Told(q, n) /\ Stage(n) = "cleared"
    BY Zenon, <1>1, <2>1, Updates DEF ShouldRun, Base, Told, Stage
  <2>3. Good(n)
    BY Zenon, <1>1, <2>1, <2>2 DEF Good, Placed, Pcs
  <2> QED
    BY Zenon, <1>1, <1>3, <2>1, <2>2, <2>3, Moves
<1> QED
  BY Zenon, <1>2, <1>3 DEF Miss

\* Skip, and an attempt that fails and is repeated or passed on to the next target.
LEMMA Trying ==
    ASSUME NEW r \in Requests, NEW q, NEW at, NEW try, Good(req[r]), req[r].pc = "exec",
           Base(q), q.prof = req[r].prof, q.msgs = req[r].msgs, q.round = req[r].round,
           q.pc = "exec", q.answer = "none", Told(req[r], q),
           Set(r, [q EXCEPT !.at = at, !.try = try])
    PROVE  Progress(r)
<1> DEFINE n == [q EXCEPT !.at = at, !.try = try]
<1>1. /\ n = [f \in Fields |-> n[f]] /\ n.prof = q.prof /\ n.resp = q.resp
      /\ n.sent = q.sent /\ n.round = q.round /\ n.pc = "exec" /\ n.msgs = q.msgs
      /\ n.answer = "none"
  BY Zenon DEF Base, Fields
<1>2. n.resp \in Resps
  BY Zenon, <1>1 DEF Base
<1>3. Base(n)
  BY Zenon, <1>1, <1>2, Updates
<1>4. ShouldRun(n) = ShouldRun(req[r]) /\ Stage(n) = Stage(req[r]) /\ Told(req[r], n)
  BY ZenonT(40), <1>1 DEF ShouldRun, Stage, Told
<1>5. Good(n)
  BY <1>1, <1>3, <1>4 DEF Good, Placed, Pcs
<1> QED
  BY Zenon, <1>1, <1>4, <1>5, Moves

\* What a call sends has been checked.
LEMMA Sends ==
    ASSUME NEW p, Good(p), p.pc = "exec"
    PROVE  /\ Base(Sent(p)) /\ Told(p, Sent(p))
           /\ \A f \in Fields \ {"sent"} : Sent(p)[f] = p[f]
<1> DEFINE x == [to |-> Current(p), round |-> p.round, text |-> Worst(p.msgs)]
           q == Sent(p)
<1>1. q = [f \in Fields |-> q[f]] /\ q.sent = p.sent \cup {x}
      /\ \A f \in Fields \ {"sent"} : q[f] = p[f]
  BY Zenon DEF Good, Base, Sent, Fields
<1>2. q.prof = p.prof /\ q.resp = p.resp
  BY Zenon, <1>1 DEF Fields
<1>3. ShouldRun(q) => \A y \in q.sent : y.text = "clean"
  BY <1>1, <1>2 DEF Good, Base, Placed, ShouldRun
<1>4. Base(q)
  BY Zenon, <1>1, <1>2, <1>3 DEF Good, Base
<1>5. Told(p, q)
  BY Zenon, <1>1 DEF Told, Stage
<1> QED
  BY <1>1, <1>4, <1>5

\* The answer to a request whose plan gets no call through.
LEMMA Failing ==
    ASSUME NEW r \in Requests, NEW q, Good(req[r]), req[r].pc = "exec",
           Base(q), q.round = req[r].round, Told(req[r], q), Fails(r, q)
    PROVE  Progress(r)
BY Zenon, Rejects DEF Fails

\* GiveUp, Skip, CallFails
LEMMA Attempting ==
    ASSUME IInv, NEW r \in Requests, GiveUp(r) \/ Skip(r) \/ CallFails(r)
    PROVE  Progress(r)
<1> DEFINE p == req[r]
           q == Sent(p)
<1>1. Good(p) /\ Base(p) /\ p.pc = "exec" /\ p.answer = "none" /\ Told(p, p)
  BY Zenon DEF IInv, GiveUp, Skip, CallFails, Sending, Good, Placed, Told
<1>2. CASE GiveUp(r)
  BY Zenon, <1>1, <1>2, Failing DEF GiveUp
<1>3. CASE Skip(r)
  BY Zenon, <1>1, <1>3, Trying DEF Skip, NextTarget
<1>4. CASE CallFails(r)
  <2>1. Base(q) /\ Told(p, q) /\ q.pc = "exec" /\ q.answer = "none" /\ q.round = p.round
        /\ q.prof = p.prof /\ q.msgs = p.msgs /\ q.at = p.at
    BY Zenon, <1>1, Sends DEF Fields
  <2>2. CASE Set(r, NextTarget(q))
    BY ZenonT(40), <1>1, <2>1, <2>2, Trying DEF NextTarget
  <2>3. CASE Set(r, [q EXCEPT !.try = @ + 1])
    <3>1. [q EXCEPT !.try = @ + 1] = [q EXCEPT !.at = q.at, !.try = q.try + 1]
      BY Zenon, <2>1 DEF Base, Fields
    <3> QED
      BY Zenon, <1>1, <2>1, <2>3, <3>1, Trying
  <2>4. CASE Fails(r, q)
    BY <1>1, <2>1, <2>4, Failing
  <2> QED
    BY Zenon, <1>4, <2>2, <2>3, <2>4 DEF CallFails
<1> QED
  BY <1>2, <1>3, <1>4

\* CallSucceeds
LEMMA Succeeding ==
    ASSUME IInv, NEW r \in Requests, NEW text \in Texts, NEW calls \in BOOLEAN,
           CallSucceeds(r, text, calls)
    PROVE  Progress(r)
<1> DEFINE p == req[r]
           q == [Sent(p) EXCEPT !.paid = @ + 1]
<1>1. Good(p) /\ Base(p) /\ p.pc = "exec" /\ p.answer = "none" /\ Stage(p) = "cleared"
  BY Zenon DEF IInv, CallSucceeds, Sending, Good, Placed, Stage
<1>2. /\ q = [f \in Fields |-> q[f]] /\ q.sent = Sent(p).sent /\ q.resp = Sent(p).resp
      /\ q.prof = p.prof /\ q.answer = "none" /\ q.round = p.round
  BY <1>1, Sends DEF Base, Fields
<1>3. q.resp \in Resps /\ q.prof = Sent(p).prof /\ Base(Sent(p)) /\ Told(p, Sent(p))
  BY Zenon, <1>1, <1>2, Sends DEF Base, Fields
<1>4. Base(q)
  BY Zenon, <1>2, <1>3, Updates
<1>5. Told(p, q)
  BY Zenon, <1>2, <1>3 DEF Told
<1>6. CASE Governed(q) /\ Set(r, [q EXCEPT !.pc = "finish",
                                      !.resp = [text |-> text, calls |-> calls]])
  <2> DEFINE n == [q EXCEPT !.pc = "finish", !.resp = [text |-> text, calls |-> calls]]
  <2>1. /\ n = [f \in Fields |-> n[f]] /\ n.sent = q.sent /\ n.pc = "finish"
        /\ n.resp = [text |-> text, calls |-> calls]
        /\ n.prof = q.prof /\ n.answer = "none" /\ n.round = p.round
    BY ZenonT(40), <1>2 DEF Fields
  <2>2. n.resp \in Resps
    BY <2>1 DEF Resps
  <2>3. Base(n)
    BY Zenon, <1>4, <2>1, <2>2, Updates
  <2>4. Placed(n) /\ Stage(n) = "cleared" /\ Told(p, n)
    BY Zenon, <1>5, <1>6, <2>1 DEF Placed, Pcs, Governed, Stage, Told
  <2> QED
    BY Zenon, <1>1, <1>6, <2>1, <2>3, <2>4, Moves DEF Good
<1>7. CASE q.prof.kind = "stream" /\ Set(r, [q EXCEPT !.pc = "stream", !.up = "open"])
  <2> DEFINE n == [q EXCEPT !.pc = "stream", !.up = "open"]
  <2>1. /\ n = [f \in Fields |-> n[f]] /\ n.sent = q.sent /\ n.pc = "stream"
        /\ n.resp = q.resp /\ n.prof = q.prof /\ n.answer = "none" /\ n.round = p.round
        /\ Set(r, n)
    BY Zenon, <1>2, <1>7 DEF Fields
  <2> HIDE DEF n, q
  <2>2. Base(n)
    BY <1>3, <1>4, <2>1, Updates
  <2>3. Placed(n) /\ Stage(n) = "cleared" /\ Told(p, n)
    BY Zenon, <1>5, <1>7, <2>1 DEF Placed, Pcs, Stage, Told
  <2> QED
    BY Zenon, <1>1, <1>7, <2>1, <2>2, <2>3, Moves DEF Good
<1>8. CASE q.prof.kind = "embed" /\ Answer(r, Logged(q), "ok")
  <2> DEFINE n == Logged(q)
  <2>1. /\ n = [f \in Fields |-> n[f]] /\ n.sent = q.sent
        /\ n.resp = q.resp /\ n.prof = q.prof /\ n.round = p.round
    BY ZenonT(40), <1>2 DEF Fields, Logged
  <2>2. Base(n)
    BY <1>3, <1>4, <2>1, Updates
  <2>3. Deserved(n, "ok") /\ Told(p, n)
    BY Zenon, <1>5, <1>8, <2>1 DEF Deserved, Fit, ShouldRun, Told
  <2> QED
    BY <1>1, <1>8, <2>1, <2>2, <2>3, Answers
<1> QED
  BY Zenon, <1>6, <1>7, <1>8 DEF CallSucceeds

\* Finish
LEMMA Finishing ==
    ASSUME IInv, NEW r \in Requests, Finish(r)
    PROVE  Progress(r) /\ CacheOK'
<1> DEFINE q == req[r]
           out == [q EXCEPT !.resp.text = IF ShouldRun(q) THEN "clean" ELSE @]
<1>1. Good(q) /\ Base(q) /\ q.pc = "finish" /\ q.answer = "none" /\ Governed(q)
      /\ Stage(q) = "cleared" /\ Told(q, q) /\ q.resp \in Resps
  BY Zenon DEF IInv, Finish, Good, Base, Placed, Stage, Told
<1>2. /\ out = [f \in Fields |-> out[f]] /\ out.prof = q.prof /\ out.sent = q.sent
      /\ out.round = q.round /\ out.answer = "none"
      /\ out.resp = [q.resp EXCEPT !.text = IF ShouldRun(q) THEN "clean" ELSE @]
  BY Zenon, <1>1 DEF Base, Fields
<1>3. out.resp \in Resps /\ (ShouldRun(q) => out.resp.text = "clean")
  BY <1>1, <1>2 DEF Resps, Texts
<1>4. ASSUME NEW why, why \notin {"none", "ok"}, Reject(r, q, why), cache' = cache
      PROVE  Progress(r) /\ CacheOK'
  BY Zenon, <1>1, <1>4, Rejects DEF IInv, CacheOK
<1>5. ASSUME cache' = [k \in DOMAIN cache \cup {HashRequest(q)} |->
                          IF k = HashRequest(q) THEN out.resp ELSE cache[k]],
             Delivered(r, Logged(out))
      PROVE  Progress(r) /\ CacheOK'
  <2> DEFINE n == Logged(out)
  <2> HIDE DEF out, q
  <2>1. /\ n = [f \in Fields |-> n[f]] /\ n.prof = q.prof /\ n.sent = q.sent
        /\ n.round = q.round /\ n.answer = "none" /\ n.resp = out.resp
    BY Zenon, <1>2 DEF Logged, Fields
  <2>2. q.prof.model \in Guarded => ShouldRun(q)
    BY Zenon, <1>1 DEF ShouldRun, Governed
  <2> HIDE DEF n
  <2>3. Base(n)
    BY <1>1, <1>3, <2>1, Updates
  <2>4. Fit(n) /\ Governed(n) /\ Told(q, n)
    BY Zenon, <1>1, <1>3, <2>1 DEF Fit, ShouldRun, Governed, Told
  <2>5. CacheOK'
    <3> SUFFICES ASSUME NEW k \in DOMAIN cache'
                 PROVE  cache'[k] \in Resps /\ (k[1] \in Guarded => cache'[k].text = "clean")
      BY Zenon DEF CacheOK
    <3>1. CASE k = HashRequest(q)
      <4>1. k[1] = q.prof.model /\ cache'[k] = out.resp
        BY Zenon, <1>5, <3>1 DEF HashRequest
      <4> QED
        BY <1>3, <2>2, <4>1
    <3>2. CASE k # HashRequest(q)
      BY Zenon, <1>5, <3>2 DEF IInv, CacheOK
    <3> QED
      BY <3>1, <3>2
  <2>6. Delivered(r, n)
    BY Zenon, <1>5 DEF n
  <2>7. Progress(r)
    BY Zenon, <1>1, <2>1, <2>3, <2>4, <2>6, Delivers DEF q
  <2> QED
    BY <2>5, <2>7
<1> QED
  BY Zenon, <1>4, <1>5 DEF Finish, Cached

\* Tools
LEMMA Looping ==
    ASSUME IInv, NEW r \in Requests, Tools(r)
    PROVE  Progress(r)
<1> DEFINE q == req[r]
<1>1. Good(q) /\ Base(q) /\ q.pc = "tools" /\ q.answer = "none" /\ Fit(q)
      /\ Stage(q) = "cleared" /\ Told(q, q) /\ q.resp \in Resps
  BY Zenon DEF IInv, Tools, Good, Base, Placed, Stage, Told
<1>2. ASSUME NEW a \in {"ok", "panic"}, Answer(r, q, a)
      PROVE  Progress(r)
  BY Zenon, <1>1, <1>2, Answers DEF Deserved
<1>3. ASSUME NEW result \in Texts, Set(r, NextRound(q, result))
      PROVE  Progress(r)
  <2> DEFINE n == NextRound(q, result)
  <2>1. /\ n = [f \in Fields |-> n[f]] /\ n.prof = q.prof /\ n.sent = q.sent
        /\ n.round = q.round + 1 /\ n.answer = "none" /\ n.resp = q.resp /\ n.pc = "admit"
        /\ Set(r, n)
    BY Zenon, <1>1, <1>3 DEF Base, NextRound, Fields
  <2> HIDE DEF n
  <2>2. Base(n)
    BY <1>1, <2>1, Updates
  <2>3. Placed(n)
    BY Zenon, <2>1 DEF Placed, Pcs
  <2>4. Stage(n) = "checking" /\ Given(n) = Given(q)
    BY Zenon, <1>1, <2>1 DEF Stage, Given
  <2>5. Legal(q, n)
    BY Zenon, <1>1, <2>1, <2>4 DEF Legal
  <2> QED
    BY Zenon, <2>1, <2>2, <2>3, <2>5 DEF Progress, Good
<1> QED
  BY Zenon, <1>2, <1>3 DEF Tools

\* Relay, Upstream, StreamError, StreamEnd
LEMMA StreamSteps ==
    ASSUME IInv, NEW r \in Requests,
           (\E text \in Texts : Relay(r, text)) \/ Upstream(r) \/ StreamError(r) \/ StreamEnd(r)
    PROVE  Progress(r)
<1> DEFINE q == req[r]
<1>1. Good(q) /\ Base(q) /\ q.pc = "stream" /\ q.answer = "none" /\ q.prof.kind = "stream"
      /\ Stage(q) = "cleared" /\ Told(q, q) /\ q.resp \in Resps
  BY Zenon DEF IInv, Relay, Upstream, StreamError, StreamEnd, Streaming, Good, Base, Placed, Stage, Told
<1>2. ASSUME NEW n, Set(r, n), n = [f \in Fields |-> n[f]], n.prof = q.prof, n.sent = q.sent,
             n.round = q.round, n.answer = "none", n.resp \in Resps, n.pc = "stream"
      PROVE  Progress(r)
  <2>1. Base(n)
    BY <1>1, <1>2, Updates
  <2>2. Placed(n) /\ Stage(n) = "cleared" /\ Told(q, n)
    BY Zenon, <1>1, <1>2 DEF Placed, Pcs, Stage, Told
  <2> QED
    BY Zenon, <1>1, <1>2, <2>1, <2>2, Moves DEF Good
<1>3. ASSUME NEW text \in Texts, Relay(r, text) PROVE Progress(r)
  <2> DEFINE n == [q EXCEPT !.chunks = @ + 1, !.resp.text = Worst(<<@, text>>)]
  <2>1. Set(r, n)
    BY Zenon, <1>3 DEF Relay
  <2>2. /\ n = [f \in Fields |-> n[f]] /\ n.prof = q.prof /\ n.sent = q.sent
        /\ n.round = q.round /\ n.answer = "none" /\ n.pc = "stream"
        /\ n.resp = [q.resp EXCEPT !.text = Worst(<<@, text>>)]
    BY Zenon, <1>1 DEF Base, Fields
  <2>3. \A msgs : Worst(msgs) \in Texts
    BY Zenon DEF Worst, Texts
  <2>4. n.resp \in Resps
    BY <1>1, <2>2, <2>3 DEF Resps
  <2> QED
    BY Zenon, <1>2, <2>1, <2>2, <2>4
<1>4. ASSUME Upstream(r) PROVE Progress(r)
  <2>1. PICK up, broke : Set(r, [q EXCEPT !.up = up, !.broke = broke])
    <3>1. ASSUME NEW up, Set(r, [q EXCEPT !.up = up])
          PROVE  Set(r, [q EXCEPT !.up = up, !.broke = q.broke])
      BY Zenon, <1>1, <3>1 DEF Base, Fields, Set
    <3> QED
      BY Zenon, <1>4, <3>1 DEF Upstream
  <2> DEFINE n == [q EXCEPT !.up = up, !.broke = broke]
  <2>2. /\ n = [f \in Fields |-> n[f]] /\ n.prof = q.prof /\ n.sent = q.sent
        /\ n.round = q.round /\ n.answer = "none" /\ n.pc = "stream" /\ n.resp = q.resp
    BY Zenon, <1>1 DEF Base, Fields
  <2> QED
    BY Zenon, <1>1, <1>2, <2>1, <2>2
<1>5. ASSUME StreamError(r) PROVE Progress(r)
  BY Zenon, <1>1, <1>5, Answers DEF StreamError, Deserved
<1>6. ASSUME StreamEnd(r) PROVE Progress(r)
  <2>1. CASE Answer(r, q, "stream_blocked")
    BY Zenon, <1>1, <2>1, Answers DEF Deserved
  <2>2. CASE ~(ShouldRun(q) /\ q.resp.text = "bad") /\ Answer(r, Logged(q), "ok")
    <3> DEFINE n == Logged(q)
    <3>1. /\ n = [f \in Fields |-> n[f]] /\ n.prof = q.prof /\ n.sent = q.sent
          /\ n.round = q.round /\ n.resp = q.resp
      BY Zenon, <1>1 DEF Base, Fields, Logged
    <3> HIDE DEF n
    <3>2. Base(n)
      BY <1>1, <3>1, Updates
    <3>3. Fit(n)
      BY Zenon, <1>1, <2>2, <3>1 DEF Fit, ShouldRun, Resps, Texts
    <3>4. Told(q, n) /\ Answer(r, n, "ok")
      BY Zenon, <2>2, <3>1 DEF Told, n
    <3> QED
      BY Zenon, <1>1, <3>1, <3>2, <3>3, <3>4, Answers DEF Deserved
  <2> QED
    BY Zenon, <1>6, <2>1, <2>2 DEF StreamEnd
<1> QED
  BY <1>3, <1>4, <1>5, <1>6

-----------------------------------------------------------------------------
(* The system *)

\* Every step is a legal change of one request, or changes none; and the cache stays checked.
LEMMA Steps ==
    ASSUME IInv, Next
    PROVE  /\ req' = req \/ \E r \in Requests : Progress(r)
           /\ CacheOK'
<1>0. cache' = cache => CacheOK'
  BY Zenon DEF IInv, CacheOK
<1>1. ASSUME NEW r \in Requests, NEW p, Arrive(r, p)
      PROVE  Progress(r) /\ CacheOK'
  BY Zenon, <1>0, <1>1, Arrives DEF Arrive
<1>2. ASSUME NEW r \in Requests, Admit(r) \/ Hit(r) \/ Miss(r) \/ Tools(r)
      PROVE  Progress(r) /\ CacheOK'
  BY Zenon, <1>0, <1>2, Admits, Hits, Misses, Looping DEF Admit, Hit, Miss, Tools
<1>3. ASSUME NEW r \in Requests, GiveUp(r) \/ Skip(r) \/ CallFails(r)
      PROVE  Progress(r) /\ CacheOK'
  BY Zenon, <1>0, <1>3, Attempting DEF GiveUp, Skip, CallFails
<1>4. ASSUME NEW r \in Requests, NEW text \in Texts, NEW calls \in BOOLEAN,
             CallSucceeds(r, text, calls)
      PROVE  Progress(r) /\ CacheOK'
  BY Zenon, <1>0, <1>4, Succeeding DEF CallSucceeds
<1>5. ASSUME NEW r \in Requests, Finish(r)
      PROVE  Progress(r) /\ CacheOK'
  BY <1>5, Finishing
<1>6. ASSUME NEW r \in Requests,
             (\E text \in Texts : Relay(r, text)) \/ Upstream(r) \/ StreamError(r) \/ StreamEnd(r)
      PROVE  Progress(r) /\ CacheOK'
  <2>1. cache' = cache
    BY Zenon, <1>6 DEF Relay, Upstream, StreamError, StreamEnd
  <2> QED
    BY <1>0, <1>6, <2>1, StreamSteps
<1>7. ASSUME NEW t, Stale(t) \/ Evict(t)
      PROVE  req' = req /\ CacheOK'
  BY Zenon, <1>0, <1>7 DEF Stale, Evict
<1>8. ASSUME NEW k \in DOMAIN cache, Forget(k)
      PROVE  req' = req /\ CacheOK'
  BY Zenon, <1>8 DEF Forget, IInv, CacheOK
<1> QED
  BY Zenon, <1>1, <1>2, <1>3, <1>4, <1>5, <1>6, <1>7, <1>8 DEF Next, Step

\* The invariant is kept.
LEMMA Inductive ==
    ASSUME IInv, [Next]_vars
    PROVE  IInv'
<1>1. ASSUME NEW r \in Requests, Progress(r), CacheOK' PROVE IInv'
  <2>1. PICK q : Set(r, q) /\ Good(q)
    BY Zenon, <1>1 DEF Progress
  <2>2. req' = [x \in Requests |-> req'[x]]
    BY Zenon, <2>1 DEF Set, IInv
  <2>3. \A x \in Requests : req'[x] = IF x = r THEN q ELSE req[x]
    BY Zenon, <2>1 DEF Set, IInv
  <2>4. \A x \in Requests : Good(req'[x])
    BY Zenon, <2>1, <2>3 DEF IInv
  <2> QED
    BY Zenon, <1>1, <2>2, <2>4 DEF IInv
<1>2. CASE req' = req /\ CacheOK'
  BY Zenon, <1>2 DEF IInv
<1>3. CASE UNCHANGED vars
  BY Zenon, <1>3 DEF IInv, CacheOK, vars
<1> QED
  BY <1>1, <1>2, <1>3, Steps

\* Initially every request is idle and the cache is empty.
LEMMA Initially == Init => IInv
<1> SUFFICES ASSUME Init PROVE IInv
  OBVIOUS
<1>1. Idle = [f \in Fields |-> Idle[f]] /\ Idle.resp \in Resps /\ Idle.sent = {}
      /\ Idle.pc = "idle" /\ Idle.answer = "none" /\ Idle.round = 0
  BY Zenon DEF Idle, Fresh, Fields, Resps, NoResp, Texts
<1>2. Good(Idle)
  BY Zenon, <1>1 DEF Good, Base, Placed, Pcs
<1>3. req = [r \in Requests |-> req[r]] /\ \A r \in Requests : Good(req[r])
  BY Zenon, <1>2 DEF Init
<1>4. CacheOK
  BY DEF Init, CacheOK
<1> QED
  BY Zenon, <1>3, <1>4 DEF IInv

\* checkInputGuardrails before executePlan, in every round of the tool loop and on every
\* path: no provider is sent what the guardrails of its model redact or block.
THEOREM CheckedBeforeSent == Spec => []SentIsChecked
<1>1. IInv /\ [Next]_vars => IInv'
  BY Inductive
<1>2. IInv => SentIsChecked
  BY Zenon DEF IInv, Good, Base, SentIsChecked
<1> QED
  BY Initially, <1>1, <1>2, PTL DEF Spec

\* Steps 8 and 9 of ExecuteGoverned: the response cache, shared by all keys, holds nothing
\* that the output guardrails of its model redact or block.
THEOREM CheckedBeforeCached == Spec => []CacheIsChecked
<1>1. IInv /\ [Next]_vars => IInv'
  BY Inductive
<1>2. IInv => CacheIsChecked
  BY Zenon DEF IInv, CacheOK, CacheIsChecked
<1> QED
  BY Initially, <1>1, <1>2, PTL DEF Spec

\* ChatCompletions, streamChatCompletions, Embeddings and ExecuteGoverned implement
\* Governance: every step of the pipeline is a step of the promise or invisible in it.
THEOREM ImplementsGovernance == Spec => Promise
<1>1. Init => Abstract!Init
  BY DEF Init, Abstract!Init, Idle, Fresh, Stage, Given
<1>2. IInv /\ [Next]_vars => IInv'
  BY Inductive
<1>3. IInv /\ [Next]_vars => [Abstract!Next]_(Abstract!vars)
  <2> SUFFICES ASSUME IInv, [Next]_vars PROVE [Abstract!Next]_(Abstract!vars)
    OBVIOUS
  <2>1. ASSUME NEW r \in Requests, Progress(r) PROVE [Abstract!Next]_(Abstract!vars)
    BY Zenon, <2>1, Simulates DEF IInv, Progress
  <2>2. CASE req' = req
    BY <2>2, Stutters
  <2> QED
    BY Zenon, <2>1, <2>2, Steps DEF vars
<1> QED
  BY Initially, <1>1, <1>2, <1>3, PTL DEF Spec, Promise, Abstract!Spec
-----------------------------------------------------------------------------
(***************************************************************************)
(* Plans.  What the loops over a route return is shown by induction on the *)
(* number of targets they have looked at.  The induction theorems of the   *)
(* library take the induction hypothesis as an operator; here it is a set  *)
(* of numbers, and the least number outside it is refuted.                 *)
(***************************************************************************)

LEMMA SetInduction ==
    ASSUME NEW S, 0 \in S, \A n \in Nat : n \in S => n + 1 \in S
    PROVE  \A n \in Nat : n \in S
<1> DEFINE less == OpToRel(<, Nat)
           rest == Nat \ S
<1> SUFFICES ASSUME rest # {} PROVE FALSE
  OBVIOUS
<1>1. IsWellFoundedOn(less, Nat)
  BY NatLessThanWellFounded, Zenon
<1> HIDE DEF less, rest
<1>2. PICK m \in rest : \A k \in rest : <<k, m>> \notin less
  <2>1. rest \subseteq Nat
    BY Zenon DEF rest
  <2> QED
    BY Zenon, <1>1, <2>1, WFMin
<1>3. m \in Nat /\ m \notin S /\ m # 0 /\ m - 1 \in Nat /\ m - 1 < m
  BY DEF rest
<1>4. m - 1 \in S
  BY Zenon, <1>2, <1>3 DEF less, rest, OpToRel
<1> QED
  BY <1>3, <1>4

\* One turn of the loop of Kept, and f, what it has appended after each turn up to n.
Turn(s, S, f, i) == IF s[i] \in S THEN Append(f[i - 1], s[i]) ELSE f[i - 1]
Turns(s, S, f, n) == f = [i \in 0 .. n |-> IF i = 0 THEN <<>> ELSE Turn(s, S, f, i)]

\* The recursive definition of kept has a solution.
LEMMA KeptDefined ==
    ASSUME NEW s, NEW S, Len(s) \in Nat
    PROVE  \E f : Turns(s, S, f, Len(s)) /\ Kept(s, S) = f[Len(s)]
<1> DEFINE I == {n \in Nat : \E f : Turns(s, S, f, n)}
<1>1. 0 \in I
  <2>1. Turns(s, S, [i \in 0 .. 0 |-> <<>>], 0)
    BY DEF Turns
  <2> QED
    BY <2>1
<1>2. ASSUME NEW n \in Nat, n \in I PROVE n + 1 \in I
  <2>1. PICK f : Turns(s, S, f, n)
    BY <1>2
  <2> DEFINE g == [i \in 0 .. n + 1 |-> IF i <= n THEN f[i] ELSE Turn(s, S, f, i)]
  <2>2. \A i \in 0 .. n : g[i] = f[i]
    OBVIOUS
  <2>3. \A i \in 1 .. n + 1 : Turn(s, S, g, i) = Turn(s, S, f, i)
    BY <2>2 DEF Turn
  <2>4. \A i \in 1 .. n : f[i] = Turn(s, S, f, i)
    BY <2>1 DEF Turns
  <2>5. f[0] = <<>>
    BY <2>1 DEF Turns
  <2>6. \A i \in 0 .. n + 1 : g[i] = IF i = 0 THEN <<>> ELSE Turn(s, S, g, i)
    BY <2>2, <2>3, <2>4, <2>5
  <2>7. Turns(s, S, g, n + 1)
    BY Zenon, <2>6 DEF Turns
  <2> QED
    BY <2>7
<1> HIDE DEF I
<1>3. Len(s) \in I
  BY <1>1, <1>2, SetInduction
<1>4. Kept(s, S) = (CHOOSE f : Turns(s, S, f, Len(s)))[Len(s)]
  BY Zenon DEF Kept, Turns, Turn
<1> QED
  BY Zenon, <1>3, <1>4 DEF I

\* What is kept of a sequence over T is a sequence over the members of T in S.
LEMMA KeptType ==
    ASSUME NEW T, NEW s \in Seq(T), NEW S
    PROVE  Kept(s, S) \in Seq(T \cap S)
<1>1. Len(s) \in Nat
  OBVIOUS
<1>2. PICK f : Turns(s, S, f, Len(s)) /\ Kept(s, S) = f[Len(s)]
  BY <1>1, KeptDefined
<1> DEFINE I == {n \in Nat : n <= Len(s) => f[n] \in Seq(T \cap S)}
<1>3. 0 \in I
  BY <1>1, <1>2 DEF Turns
<1>4. ASSUME NEW n \in Nat, n \in I PROVE n + 1 \in I
  <2> SUFFICES ASSUME n + 1 <= Len(s) PROVE f[n + 1] \in Seq(T \cap S)
    OBVIOUS
  <2>1. f[n] \in Seq(T \cap S) /\ s[n + 1] \in T
    BY <1>1, <1>4
  <2>2. f[n + 1] = Turn(s, S, f, n + 1)
    BY <1>1, <1>2 DEF Turns
  <2>3. f[n + 1] = IF s[n + 1] \in S THEN Append(f[n], s[n + 1]) ELSE f[n]
    BY <2>2 DEF Turn
  <2> QED
    BY <2>1, <2>3
<1> HIDE DEF I
<1>5. Len(s) \in I
  BY <1>1, <1>3, <1>4, SetInduction
<1> QED
  BY <1>1, <1>2, <1>5 DEF I

\* Plan and FilterByResidency return targets, the latter only targets of the region.
LEMMA Filtered ==
    ASSUME NEW r \in Requests, NEW p \in Profiles[r], NEW eu
    PROVE  /\ FilterByResidency(Plan(p.model), eu) \in Seq(Targets)
           /\ eu => FilterByResidency(Plan(p.model), eu) \in Seq(Residents)
<1> DEFINE healthy == {t \in Targets : IsHealthy(t)}
           s == Route[p.model]
<1>1. s \in Seq(Targets)
  BY RouteAssumption
<1> HIDE DEF s
<1>2. Kept(s, healthy) \in Seq(Targets \cap healthy)
  BY <1>1, KeptType
<1>3. Kept(s, Targets \ healthy) \in Seq(Targets \cap (Targets \ healthy))
  BY <1>1, KeptType
<1>4. Plan(p.model) \in Seq(Targets)
  <2>1. Kept(s, healthy) \in Seq(Targets) /\ Kept(s, Targets \ healthy) \in Seq(Targets)
    BY <1>2, <1>3
  <2> QED
    BY <2>1 DEF Plan, ReorderByHealth, s
<1>5. Kept(Plan(p.model), Residents) \in Seq(Targets \cap Residents)
  BY <1>4, KeptType
<1>6. \A x \in Seq(Targets \cap Residents) : x \in Seq(Targets) /\ x \in Seq(Residents)
  OBVIOUS
<1> QED
  BY Zenon, <1>4, <1>5, <1>6 DEF FilterByResidency

-----------------------------------------------------------------------------
(***************************************************************************)
(* Counting, and residency.  Only the first round counts: a later one has  *)
(* skip set.  In the first round what has been counted, paid and logged    *)
(* follows from where the request is, and a request that is bound to the   *)
(* region has a plan within it from the time it needs one.                 *)
(***************************************************************************)

Counts(q) ==
    /\ {q.round, q.rated, q.paid, q.logged} \subseteq Nat
    /\ q.rated <= 1 /\ q.logged <= 1
    /\ q.round # 0 => q.skip

FirstRound(q) ==
    q.round = 0 =>
        /\ q.pc \in {"idle", "admit"} => q.rated = 0
        /\ q.pc \in {"idle", "admit", "lookup", "exec"} => q.paid = 0 /\ q.logged = 0
        /\ q.pc \in {"finish", "stream"} => q.paid = 1 /\ q.logged = 0 /\ ~q.skip
        /\ q.pc \in {"admit", "lookup", "exec"} => ~q.skip
        /\ q.pc = "tools" /\ q.prof.keyed => q.logged = q.paid
        /\ q.answer = "ok" /\ q.prof.keyed => q.logged = q.paid

Bound(q) == q.prof.eu /\ q.prof.kind # "mcp"

\* The first messages have gone to the region only.
Stayed(q) == Bound(q) => \A x \in q.sent : x.round = 0 => x.to \in Residents

\* The first plan of a request that is bound to the region.
Planned(q) ==
    /\ q.at \in Nat \ {0}
    /\ Bound(q) /\ q.round = 0 /\ q.pc \in {"admit", "lookup", "exec"} =>
          q.plan \in Seq(Residents) /\ (q.prof.kind = "chat" => q.plan # <<>>)

Sound(q) == Counts(q) /\ FirstRound(q) /\ Stayed(q) /\ Planned(q)

\* Request r changes, and no other, and is a sound one with the given profile.
Stays(r, prof) == \E q : Set(r, q) /\ Sound(q) /\ q.prof = prof

\* An answer counts nothing more.
LEMMA SoundAnswer ==
    ASSUME NEW r \in Requests, NEW q, NEW a, Base(q), Counts(q), Stayed(q), Answer(r, q, a),
           a = "ok" /\ q.prof.keyed /\ q.round = 0 => q.logged = q.paid
    PROVE  Stays(r, q.prof)
<1> DEFINE e == Ended(q, a)
<1>1. Set(r, e)
  BY Zenon DEF Answer, Ended
<1>2. /\ e.pc = "done" /\ e.answer = a /\ e.prof = q.prof /\ e.round = q.round /\ e.skip = q.skip
      /\ e.sent = q.sent /\ e.rated = q.rated /\ e.paid = q.paid /\ e.logged = q.logged
      /\ e.at = 1
  BY Zenon DEF Base, Ended, Fields
<1> HIDE DEF e
<1>3. Sound(e)
  BY <1>2 DEF Sound, Counts, FirstRound, Bound, Stayed, Planned
<1> QED
  BY Zenon, <1>1, <1>2, <1>3 DEF Stays

LEMMA SoundReject ==
    ASSUME NEW r \in Requests, NEW q, NEW why, Base(q), Counts(q), Stayed(q), Reject(r, q, why),
           why # "ok"
    PROVE  Stays(r, q.prof)
<1>1. PICK a : Answer(r, q, a) /\ a # "ok"
  BY DEF Reject
<1> QED
  BY <1>1, SoundAnswer

\* Arrive
LEMMA SoundArrival ==
    ASSUME NEW r \in Requests, NEW p \in Profiles[r], Arrive(r, p)
    PROVE  Stays(r, p)
<1> DEFINE q == Fresh(p)
           plan == FilterByResidency(Plan(p.model), p.eu)
           n == [q EXCEPT !.plan = plan]
<1>1. /\ q = [f \in Fields |-> q[f]] /\ q.prof = p /\ q.round = 0 /\ q.rated = 0 /\ q.paid = 0
      /\ q.logged = 0 /\ ~q.skip /\ q.sent = {} /\ q.at = 1 /\ q.pc = "admit" /\ q.answer = "none"
      /\ q.plan = <<>> /\ q.resp = NoResp
  BY Zenon DEF Fresh, Fields
<1>2. NoResp \in Resps
  BY Zenon DEF NoResp, Resps, Texts
<1>3. /\ n.prof = p /\ n.round = 0 /\ n.rated = 0 /\ n.paid = 0
      /\ n.logged = 0 /\ ~n.skip /\ n.sent = {} /\ n.at = 1 /\ n.pc = "admit" /\ n.answer = "none"
      /\ n.plan = plan
  BY Zenon DEF Fresh
<1>4. p.eu => plan \in Seq(Residents)
  BY Zenon, Filtered
<1> HIDE DEF q, n, plan
<1>5. Base(q) /\ Counts(q) /\ Stayed(q)
  <2>1. q.resp \in Resps /\ \A x : x \notin q.sent
    BY Zenon, <1>1, <1>2
  <2>2. Base(q)
    BY Zenon, <1>1, <2>1 DEF Base
  <2>3. Counts(q)
    BY <1>1 DEF Counts
  <2> QED
    BY Zenon, <2>1, <2>2, <2>3 DEF Stayed
<1>6. CASE p.kind \notin {"chat", "stream"} /\ Set(r, q)
  <2>1. q.plan \in Seq(Residents) /\ q.at \in Nat \ {0} /\ q.prof.kind # "chat"
    <3>1. q.plan = <<>> /\ q.at = 1 /\ q.prof = p
      BY <1>1
    <3> QED
      BY <1>6, <3>1
  <2>2. FirstRound(q)
    BY Zenon, <1>1 DEF FirstRound
  <2>3. Planned(q)
    BY Zenon, <2>1 DEF Planned
  <2> QED
    BY Zenon, <1>1, <1>5, <1>6, <2>2, <2>3 DEF Stays, Sound
<1>7. CASE Answer(r, q, "residency_denied")
  <2>1. Stays(r, q.prof) /\ q.prof = p
    BY <1>1, <1>5, <1>7, SoundAnswer
  <2> QED
    BY <2>1
<1>8. CASE plan # <<>> /\ Set(r, n)
  <2>1. Sound(n)
    BY <1>3, <1>4, <1>8 DEF Sound, Counts, FirstRound, Bound, Stayed, Planned
  <2> QED
    BY Zenon, <1>3, <1>8, <2>1 DEF Stays
<1> QED
  BY Zenon, <1>6, <1>7, <1>8 DEF Arrive, q, n, plan

\* Admit
LEMMA SoundAdmission ==
    ASSUME NEW r \in Requests, Base(req[r]), Sound(req[r]), req[r].answer = "none", Admit(r)
    PROVE  Stays(r, req[r].prof)
<1> DEFINE q == req[r]
           counted == [q EXCEPT !.rated = IF Limited(q) THEN @ + 1 ELSE @]
           n == [counted EXCEPT !.pc = "lookup", !.msgs = Checked(q)]
<1>1. q.pc = "admit"
  BY Zenon DEF Admit
<1>2. /\ counted = [f \in Fields |-> counted[f]] /\ counted.prof = q.prof
      /\ counted.resp = q.resp /\ counted.sent = q.sent /\ counted.round = q.round
      /\ counted.paid = q.paid /\ counted.logged = q.logged /\ counted.skip = q.skip
      /\ counted.rated = IF Limited(q) THEN q.rated + 1 ELSE q.rated
  BY Zenon DEF Base, Fields
<1>3. /\ n.prof = q.prof /\ n.sent = q.sent /\ n.round = q.round /\ n.paid = q.paid
      /\ n.logged = q.logged /\ n.skip = q.skip /\ n.rated = counted.rated
      /\ n.pc = "lookup" /\ n.at = q.at /\ n.plan = q.plan /\ n.answer = "none"
  BY Zenon DEF Base, Fields
<1>4. PICK rate \in checkRateLimit(q), budget \in checkBudget(q), guard \in checkInputGuardrails(q) :
          IF ~modelAllowed(q) THEN Reject(r, q, "model_not_allowed")
          ELSE IF rate # "ok" THEN Reject(r, counted, rate)
          ELSE IF budget # "ok" THEN Reject(r, counted, budget)
          ELSE IF guard # "ok" THEN Reject(r, counted, guard)
          ELSE Set(r, n)
  BY Zenon DEF Admit
<1> HIDE DEF counted, n
<1>5. Counts(counted)
  <2>1. Limited(q) => q.round = 0 /\ q.rated = 0
    BY Zenon, <1>1 DEF Limited, Sound, Counts, FirstRound
  <2> QED
    BY <1>2, <2>1 DEF Sound, Counts
<1>6. Base(counted) /\ Stayed(counted)
  BY Zenon, <1>2 DEF Base, ShouldRun, Sound, Stayed, Bound
<1>7. Sound(n)
  BY <1>1, <1>2, <1>3, <1>5 DEF Sound, Counts, FirstRound, Stayed, Bound, Planned
<1> QED
  <2>1. ASSUME NEW why, why # "ok", Reject(r, counted, why) PROVE Stays(r, q.prof)
    <3>1. Stays(r, counted.prof)
      BY <1>5, <1>6, <2>1, SoundReject
    <3> QED
      BY <1>2, <3>1
  <2>2. ASSUME NEW why, why # "ok", Reject(r, q, why) PROVE Stays(r, q.prof)
    BY Zenon, <2>2, SoundReject DEF Sound
  <2>3. Set(r, n) => Stays(r, q.prof)
    BY Zenon, <1>3, <1>7 DEF Stays
  <2> QED
    BY <1>4, <2>1, <2>2, <2>3

\* Delivered
LEMMA SoundDelivery ==
    ASSUME NEW r \in Requests, NEW q, Base(q), Counts(q), Stayed(q), q.at \in Nat \ {0},
           q.answer = "none", Delivered(r, q),
           q.prof.keyed /\ q.round = 0 => q.logged = q.paid
    PROVE  Stays(r, q.prof)
<1> DEFINE n == [q EXCEPT !.pc = "tools"]
<1>1. /\ n.prof = q.prof /\ n.sent = q.sent /\ n.round = q.round /\ n.paid = q.paid
      /\ n.logged = q.logged /\ n.skip = q.skip /\ n.rated = q.rated
      /\ n.pc = "tools" /\ n.at = q.at /\ n.answer = "none"
  BY Zenon DEF Base, Fields
<1>2. Set(r, n) \/ Answer(r, q, "ok")
  BY Zenon DEF Delivered
<1> HIDE DEF n
<1>3. Sound(n)
  BY <1>1 DEF Sound, Counts, FirstRound, Stayed, Bound, Planned
<1> QED
  BY Zenon, <1>1, <1>2, <1>3, SoundAnswer DEF Stays

\* Hit
LEMMA SoundHit ==
    ASSUME IInv, NEW r \in Requests, Sound(req[r]), Hit(r)
    PROVE  Stays(r, req[r].prof)
<1> DEFINE q == req[r]
           n == [q EXCEPT !.resp = cache[HashRequest(q)]]
<1>1. Base(q) /\ q.pc = "lookup" /\ q.answer = "none" /\ HashRequest(q) \in DOMAIN cache
      /\ Delivered(r, n)
  BY Zenon DEF IInv, Hit, Good, Placed
<1>2. cache[HashRequest(q)] \in Resps
  BY Zenon, <1>1 DEF IInv, CacheOK
<1>3. /\ n = [f \in Fields |-> n[f]] /\ n.prof = q.prof /\ n.resp = cache[HashRequest(q)]
      /\ n.sent = q.sent /\ n.round = q.round /\ n.answer = "none" /\ n.paid = q.paid
      /\ n.logged = q.logged /\ n.skip = q.skip /\ n.rated = q.rated /\ n.at = q.at
  BY Zenon, <1>1 DEF Base, Fields
<1> HIDE DEF n, q
<1>4. Base(n)
  BY <1>1, <1>2, <1>3, Updates
<1>5. Counts(n) /\ Stayed(n) /\ n.at \in Nat \ {0}
  BY <1>3 DEF Sound, Counts, Stayed, Bound, Planned, q
<1>6. n.round = 0 => n.logged = n.paid
  BY Zenon, <1>1, <1>3 DEF Sound, FirstRound, q
<1> QED
  <2>1. Stays(r, n.prof)
    BY <1>1, <1>3, <1>4, <1>5, <1>6, SoundDelivery
  <2> QED
    BY Zenon, <1>3, <2>1 DEF q

\* Miss
LEMMA SoundMiss ==
    ASSUME IInv, NEW r \in Requests, Sound(req[r]), req[r].prof \in Profiles[r], Miss(r)
    PROVE  Stays(r, req[r].prof)
<1> DEFINE q == req[r]
           new == FilterByResidency(Plan(q.prof.model), q.prof.eu /\ ~Governed(q))
           plan == IF q.plan # <<>> THEN q.plan ELSE new
           n == [q EXCEPT !.pc = "exec", !.plan = plan]
<1>1. Base(q) /\ q.pc = "lookup" /\ q.answer = "none"
  BY Zenon DEF IInv, Miss, Good, Placed
<1>2. CASE Answer(r, q, "residency_denied")
  BY Zenon, <1>1, <1>2, SoundAnswer DEF Sound
<1>3. CASE plan # <<>> /\ Set(r, n)
  <2>1. /\ n.prof = q.prof /\ n.sent = q.sent /\ n.round = q.round /\ n.paid = q.paid
        /\ n.logged = q.logged /\ n.skip = q.skip /\ n.rated = q.rated
        /\ n.pc = "exec" /\ n.at = q.at /\ n.plan = plan /\ n.answer = "none"
    BY Zenon, <1>1 DEF Base, Fields
  <2>2. ASSUME Bound(q), q.round = 0 PROVE plan \in Seq(Residents)
    <3>1. q.plan # <<>> => q.plan \in Seq(Residents)
      BY Zenon, <1>1, <2>2 DEF Sound, Planned
    <3>2. q.plan = <<>> => ~Governed(q)
      BY Zenon, <1>1, <2>2 DEF Sound, Planned, Bound, Governed
    <3>3. ~Governed(q) => new \in Seq(Residents)
      BY Zenon, <2>2, Filtered DEF Bound
    <3> QED
      BY <3>1, <3>2, <3>3
  <2> HIDE DEF n, plan
  <2>3. Counts(n) /\ FirstRound(n) /\ Stayed(n)
    BY Zenon, <1>1, <2>1 DEF Sound, Counts, FirstRound, Stayed, Bound
  <2>4. Planned(n)
    BY Zenon, <1>3, <2>1, <2>2 DEF Sound, Planned, Bound
  <2> QED
    BY Zenon, <1>3, <2>1, <2>3, <2>4 DEF Sound, Stays
<1> QED
  BY Zenon, <1>2, <1>3 DEF Miss

\* Skip, and an attempt that fails and is repeated or passed on to the next target.
LEMMA SoundTry ==
    ASSUME NEW r \in Requests, NEW q, NEW at \in Nat \ {0}, NEW try, Base(q), Sound(q), q.pc = "exec",
           Set(r, [q EXCEPT !.at = at, !.try = try])
    PROVE  Stays(r, q.prof)
<1> DEFINE n == [q EXCEPT !.at = at, !.try = try]
<1>1. /\ n.prof = q.prof /\ n.sent = q.sent /\ n.round = q.round /\ n.paid = q.paid
      /\ n.logged = q.logged /\ n.skip = q.skip /\ n.rated = q.rated
      /\ n.pc = q.pc /\ n.at = at /\ n.plan = q.plan /\ n.answer = q.answer
  BY Zenon DEF Base, Fields
<1>2. Set(r, n)
  OBVIOUS
<1> HIDE DEF n
<1>3. Sound(n)
  BY Zenon, <1>1 DEF Sound, Counts, FirstRound, Stayed, Bound, Planned
<1> QED
  BY Zenon, <1>1, <1>2, <1>3 DEF Stays

\* A call of the first round goes to a target of the plan.
LEMMA SoundSending ==
    ASSUME NEW p, Base(p), Sound(p), p.pc = "exec", p.at <= Len(p.plan)
    PROVE  Sound(Sent(p))
<1> DEFINE x == [to |-> Current(p), round |-> p.round, text |-> Worst(p.msgs)]
           q == Sent(p)
<1>1. q.sent = p.sent \cup {x} /\ \A f \in Fields \ {"sent"} : q[f] = p[f]
  BY Zenon DEF Base, Sent, Fields
<1>2. /\ q.prof = p.prof /\ q.round = p.round /\ q.paid = p.paid
      /\ q.logged = p.logged /\ q.skip = p.skip /\ q.rated = p.rated
      /\ q.pc = p.pc /\ q.at = p.at /\ q.plan = p.plan /\ q.answer = p.answer
  BY Zenon, <1>1 DEF Fields
<1>3. Bound(p) /\ p.round = 0 => Current(p) \in Residents
  BY DEF Sound, Planned, Current
<1>4. x.to = Current(p) /\ x.round = p.round
  OBVIOUS
<1> HIDE DEF q, x
<1>5. Stayed(q)
  BY Zenon, <1>1, <1>2, <1>3, <1>4 DEF Sound, Stayed, Bound
<1>6. Counts(q) /\ FirstRound(q) /\ Planned(q)
  BY Zenon, <1>2 DEF Sound, Counts, FirstRound, Bound, Planned
<1> QED
  BY Zenon, <1>5, <1>6 DEF Sound, q

\* GiveUp, Skip, CallFails
LEMMA SoundAttempt ==
    ASSUME IInv, NEW r \in Requests, Sound(req[r]), GiveUp(r) \/ Skip(r) \/ CallFails(r)
    PROVE  Stays(r, req[r].prof)
<1> DEFINE p == req[r]
           q == Sent(p)
<1>1. Good(p) /\ Base(p) /\ p.pc = "exec" /\ p.at \in Nat \ {0} /\ p.at + 1 \in Nat \ {0}
  BY DEF IInv, GiveUp, Skip, CallFails, Sending, Good, Sound, Planned
<1>2. CASE GiveUp(r)
  BY Zenon, <1>1, <1>2, SoundReject DEF GiveUp, Fails, Sound
<1>3. CASE Skip(r)
  BY Zenon, <1>1, <1>3, SoundTry DEF Skip, NextTarget
<1>4. CASE CallFails(r)
  <2>1. Base(q) /\ q.pc = "exec" /\ q.prof = p.prof /\ q.at = p.at
    BY Zenon, <1>1, Sends DEF Fields
  <2>2. Sound(q)
    BY Zenon, <1>1, <1>4, SoundSending DEF CallFails, Sending
  <2>3. CASE Set(r, NextTarget(q))
    <3>1. Set(r, [q EXCEPT !.at = p.at + 1, !.try = 1])
      BY Zenon, <2>1, <2>3 DEF NextTarget
    <3> QED
      BY Zenon, <1>1, <2>1, <2>2, <3>1, SoundTry
  <2>4. CASE Set(r, [q EXCEPT !.try = @ + 1])
    <3>1. [q EXCEPT !.try = @ + 1] = [q EXCEPT !.at = p.at, !.try = q.try + 1]
      BY Zenon, <2>1 DEF Base, Fields
    <3> QED
      BY Zenon, <1>1, <2>1, <2>2, <2>4, <3>1, SoundTry
  <2>5. CASE Fails(r, q)
    BY Zenon, <2>1, <2>2, <2>5, SoundReject DEF Fails, Sound
  <2> QED
    BY Zenon, <1>4, <2>3, <2>4, <2>5 DEF CallFails
<1> QED
  BY <1>2, <1>3, <1>4

\* Usage is logged once, and only in the first round.
LEMMA SoundLogging ==
    ASSUME NEW q, Base(q), Counts(q), Stayed(q), q.at \in Nat \ {0},
           q.round = 0 => q.logged = 0 /\ q.paid = 1 /\ ~q.skip
    PROVE  LET n == Logged(q) IN
           /\ Base(n) /\ Counts(n) /\ Stayed(n) /\ n.at = q.at
           /\ n.prof = q.prof /\ n.answer = q.answer
           /\ n.prof.keyed /\ n.round = 0 => n.logged = n.paid
<1> DEFINE n == Logged(q)
<1>1. /\ n = [f \in Fields |-> n[f]] /\ n.prof = q.prof /\ n.resp = q.resp
      /\ n.sent = q.sent /\ n.round = q.round /\ n.answer = q.answer /\ n.paid = q.paid
      /\ n.logged = (IF q.prof.keyed /\ ~q.skip THEN q.logged + 1 ELSE q.logged)
      /\ n.skip = q.skip /\ n.rated = q.rated /\ n.at = q.at
  BY Zenon DEF Base, Fields, Logged
<1> HIDE DEF n
<1>2. n.resp \in Resps
  BY Zenon, <1>1 DEF Base
<1>3. Base(n)
  BY <1>1, <1>2, Updates
<1>4. Counts(n)
  BY <1>1 DEF Counts
<1>5. Stayed(n)
  BY Zenon, <1>1 DEF Stayed, Bound
<1>6. n.prof.keyed /\ n.round = 0 => n.logged = n.paid
  BY <1>1
<1> QED
  BY Zenon, <1>1, <1>3, <1>4, <1>5, <1>6 DEF n

\* CallSucceeds
LEMMA SoundSuccess ==
    ASSUME IInv, NEW r \in Requests, Sound(req[r]), NEW text \in Texts, NEW calls \in BOOLEAN,
           CallSucceeds(r, text, calls)
    PROVE  Stays(r, req[r].prof)
<1> DEFINE p == req[r]
           o == Sent(p)
           q == [o EXCEPT !.paid = @ + 1]
<1>1. Good(p) /\ Base(p) /\ p.pc = "exec" /\ p.answer = "none" /\ p.at <= Len(p.plan)
  BY Zenon DEF IInv, CallSucceeds, Sending, Good, Placed
<1>2. Base(o) /\ Sound(o) /\ o.pc = "exec" /\ o.prof = p.prof /\ o.answer = "none"
  BY Zenon, <1>1, Sends, SoundSending DEF Fields
<1> HIDE DEF o
<1>3. /\ q = [f \in Fields |-> q[f]] /\ q.prof = o.prof /\ q.resp = o.resp
      /\ q.sent = o.sent /\ q.round = o.round /\ q.answer = "none" /\ q.paid = o.paid + 1
      /\ q.logged = o.logged /\ q.skip = o.skip /\ q.rated = o.rated /\ q.at = o.at
  BY Zenon, <1>2 DEF Base, Fields
<1>4. o.resp \in Resps
  BY Zenon, <1>2 DEF Base
<1>5. CASE Set(r, [q EXCEPT !.pc = "finish", !.resp = [text |-> text, calls |-> calls]])
  <2> DEFINE n == [q EXCEPT !.pc = "finish", !.resp = [text |-> text, calls |-> calls]]
  <2>1. /\ n.prof = o.prof /\ n.sent = o.sent /\ n.round = o.round /\ n.answer = "none"
        /\ n.paid = o.paid + 1 /\ n.logged = o.logged /\ n.skip = o.skip /\ n.rated = o.rated
        /\ n.at = o.at /\ n.pc = "finish"
    BY <1>3 DEF Fields
  <2> HIDE DEF n
  <2>2. Sound(n)
    BY <1>2, <2>1 DEF Sound, Counts, FirstRound, Stayed, Bound, Planned
  <2> QED
    BY Zenon, <1>2, <1>5, <2>1, <2>2 DEF Stays, n
<1>6. CASE Set(r, [q EXCEPT !.pc = "stream", !.up = "open"])
  <2> DEFINE n == [q EXCEPT !.pc = "stream", !.up = "open"]
  <2>1. /\ n.prof = o.prof /\ n.sent = o.sent /\ n.round = o.round /\ n.answer = "none"
        /\ n.paid = o.paid + 1 /\ n.logged = o.logged /\ n.skip = o.skip /\ n.rated = o.rated
        /\ n.at = o.at /\ n.pc = "stream"
    BY Zenon, <1>3 DEF Fields
  <2> HIDE DEF n
  <2>2. Sound(n)
    BY <1>2, <2>1 DEF Sound, Counts, FirstRound, Stayed, Bound, Planned
  <2> QED
    BY Zenon, <1>2, <1>6, <2>1, <2>2 DEF Stays, n
<1>7. CASE Answer(r, Logged(q), "ok")
  <2> HIDE DEF q
  <2>1. Base(q)
    BY <1>2, <1>3, <1>4, Updates
  <2>2. Counts(q) /\ Stayed(q) /\ q.at \in Nat \ {0}
    BY <1>2, <1>3 DEF Sound, Counts, Stayed, Bound, Planned
  <2>3. q.round = 0 => q.logged = 0 /\ q.paid = 1 /\ ~q.skip
    BY <1>2, <1>3 DEF Sound, FirstRound
  <2> DEFINE n == Logged(q)
  <2>4. /\ Base(n) /\ Counts(n) /\ Stayed(n) /\ n.prof = q.prof
        /\ n.prof.keyed /\ n.round = 0 => n.logged = n.paid
    BY <2>1, <2>2, <2>3, SoundLogging
  <2>5. Answer(r, n, "ok") /\ n.prof = p.prof
    BY <1>2, <1>3, <1>7, <2>4
  <2> HIDE DEF n
  <2>6. Stays(r, n.prof)
    BY <2>4, <2>5, SoundAnswer
  <2> QED
    BY <2>5, <2>6
<1> QED
  BY Zenon, <1>5, <1>6, <1>7 DEF CallSucceeds, o

\* Finish
LEMMA SoundFinish ==
    ASSUME IInv, NEW r \in Requests, Sound(req[r]), Finish(r)
    PROVE  Stays(r, req[r].prof)
<1> DEFINE q == req[r]
           out == [q EXCEPT !.resp.text = IF ShouldRun(q) THEN "clean" ELSE @]
<1>1. Base(q) /\ q.pc = "finish" /\ q.answer = "none" /\ q.resp \in Resps
  BY Zenon DEF IInv, Finish, Good, Base, Placed
<1>2. /\ out = [f \in Fields |-> out[f]] /\ out.prof = q.prof /\ out.sent = q.sent
      /\ out.round = q.round /\ out.answer = "none" /\ out.paid = q.paid
      /\ out.logged = q.logged /\ out.skip = q.skip /\ out.rated = q.rated /\ out.at = q.at
      /\ out.resp = [q.resp EXCEPT !.text = IF ShouldRun(q) THEN "clean" ELSE @]
  BY Zenon, <1>1 DEF Base, Fields
<1>3. out.resp \in Resps
  BY <1>1, <1>2 DEF Resps, Texts
<1>4. ASSUME NEW why, why # "ok", Reject(r, q, why) PROVE Stays(r, q.prof)
  BY Zenon, <1>1, <1>4, SoundReject DEF Sound
<1>5. ASSUME Delivered(r, Logged(out)) PROVE Stays(r, q.prof)
  <2> HIDE DEF out, q
  <2>1. Base(out)
    BY <1>1, <1>2, <1>3, Updates
  <2>2. Counts(out) /\ Stayed(out) /\ out.at \in Nat \ {0}
    BY Zenon, <1>2 DEF Sound, Counts, Stayed, Bound, Planned, q
  <2>3. out.round = 0 => out.logged = 0 /\ out.paid = 1 /\ ~out.skip
    BY Zenon, <1>1, <1>2 DEF Sound, FirstRound, q
  <2> DEFINE n == Logged(out)
  <2>4. /\ Base(n) /\ Counts(n) /\ Stayed(n) /\ n.at = out.at
        /\ n.prof = out.prof /\ n.answer = out.answer
        /\ n.prof.keyed /\ n.round = 0 => n.logged = n.paid
    BY <2>1, <2>2, <2>3, SoundLogging
  <2>5. Delivered(r, n) /\ n.prof = q.prof /\ n.answer = "none" /\ n.at \in Nat \ {0}
    BY <1>2, <1>5, <2>2, <2>4
  <2> HIDE DEF n
  <2>6. Stays(r, n.prof)
    BY <2>4, <2>5, SoundDelivery
  <2> QED
    BY <2>5, <2>6
<1> QED
  BY Zenon, <1>4, <1>5 DEF Finish

\* Tools
LEMMA SoundTools ==
    ASSUME IInv, NEW r \in Requests, Sound(req[r]), Tools(r)
    PROVE  Stays(r, req[r].prof)
<1> DEFINE q == req[r]
<1>1. Base(q) /\ q.pc = "tools" /\ q.answer = "none"
  BY Zenon DEF IInv, Tools, Good, Placed
<1>2. ASSUME NEW a, Answer(r, q, a) PROVE Stays(r, q.prof)
  BY Zenon, <1>1, <1>2, SoundAnswer DEF Sound, FirstRound
<1>3. ASSUME NEW result \in Texts, Set(r, NextRound(q, result)) PROVE Stays(r, q.prof)
  <2> DEFINE n == NextRound(q, result)
  <2>1. /\ n.prof = q.prof /\ n.sent = q.sent /\ n.round = q.round + 1 /\ n.answer = "none"
        /\ n.paid = q.paid /\ n.logged = q.logged /\ n.skip = TRUE /\ n.rated = q.rated
        /\ n.at = 1 /\ n.pc = "admit"
    BY Zenon, <1>1 DEF Base, NextRound, Fields
  <2> HIDE DEF n
  <2>2. n.round \in Nat /\ n.round # 0
    BY <2>1 DEF Sound, Counts
  <2>3. Sound(n)
    BY <2>1, <2>2 DEF Sound, Counts, FirstRound, Stayed, Bound, Planned
  <2> QED
    BY Zenon, <1>3, <2>1, <2>3 DEF Stays, n
<1> QED
  BY Zenon, <1>2, <1>3 DEF Tools

\* Relay, Upstream, StreamError, StreamEnd
LEMMA SoundStream ==
    ASSUME IInv, NEW r \in Requests, Sound(req[r]),
           (\E text \in Texts : Relay(r, text)) \/ Upstream(r) \/ StreamError(r) \/ StreamEnd(r)
    PROVE  Stays(r, req[r].prof)
<1> DEFINE q == req[r]
<1>1. Base(q) /\ q.pc = "stream" /\ q.answer = "none"
  BY Zenon DEF IInv, Relay, Upstream, StreamError, StreamEnd, Streaming, Good, Placed
<1>2. ASSUME NEW n, Set(r, n),
             \A f \in Fields \ {"chunks", "resp", "up", "broke"} : n[f] = q[f]
      PROVE  Stays(r, q.prof)
  <2>1. /\ n.prof = q.prof /\ n.sent = q.sent /\ n.round = q.round /\ n.answer = q.answer
        /\ n.paid = q.paid /\ n.logged = q.logged /\ n.skip = q.skip /\ n.rated = q.rated
        /\ n.at = q.at /\ n.pc = q.pc /\ n.plan = q.plan
    BY Zenon, <1>2 DEF Fields
  <2>2. Sound(n)
    BY <2>1 DEF Sound, Counts, FirstRound, Stayed, Bound, Planned
  <2> QED
    BY Zenon, <1>2, <2>1, <2>2 DEF Stays
<1>3. ASSUME NEW text \in Texts, Relay(r, text) PROVE Stays(r, q.prof)
  <2> DEFINE n == [q EXCEPT !.chunks = @ + 1, !.resp.text = Worst(<<@, text>>)]
  <2>1. Set(r, n)
    BY Zenon, <1>3 DEF Relay
  <2>2. \A f \in Fields \ {"chunks", "resp", "up", "broke"} : n[f] = q[f]
    BY Zenon, <1>1 DEF Base, Fields
  <2> QED
    BY Zenon, <1>2, <2>1, <2>2
<1>4. ASSUME Upstream(r) PROVE Stays(r, q.prof)
  <2>1. ASSUME NEW up, NEW broke, Set(r, [q EXCEPT !.up = up]) \/ Set(r, [q EXCEPT !.up = up, !.broke = broke])
        PROVE  Stays(r, q.prof)
    <3>1. \A f \in Fields \ {"chunks", "resp", "up", "broke"} :
             [q EXCEPT !.up = up][f] = q[f] /\ [q EXCEPT !.up = up, !.broke = broke][f] = q[f]
      BY Zenon, <1>1 DEF Base, Fields
    <3> QED
      BY Zenon, <1>2, <2>1, <3>1
  <2> QED
    BY Zenon, <1>4, <2>1 DEF Upstream
<1>5. ASSUME NEW a, a # "ok", Answer(r, q, a) PROVE Stays(r, q.prof)
  BY Zenon, <1>1, <1>5, SoundAnswer DEF Sound
<1>6. ASSUME Answer(r, Logged(q), "ok") PROVE Stays(r, q.prof)
  <2> DEFINE n == Logged(q)
  <2>1. q.round = 0 => q.logged = 0 /\ q.paid = 1 /\ ~q.skip
    BY Zenon, <1>1 DEF Sound, FirstRound
  <2>2. Counts(q) /\ Stayed(q) /\ q.at \in Nat \ {0}
    BY Zenon DEF Sound, Planned
  <2>3. /\ Base(n) /\ Counts(n) /\ Stayed(n) /\ n.prof = q.prof
        /\ n.prof.keyed /\ n.round = 0 => n.logged = n.paid
    BY <1>1, <2>1, <2>2, SoundLogging
  <2>4. Answer(r, n, "ok")
    BY <1>6
  <2> HIDE DEF n
  <2>5. Stays(r, n.prof)
    BY <2>3, <2>4, SoundAnswer
  <2> QED
    BY <2>3, <2>5
<1> QED
  BY Zenon, <1>3, <1>4, <1>5, <1>6 DEF StreamError, StreamEnd

\* Every request is sound, and has one of its profiles once it has arrived.
SoundInv ==
    \A r \in Requests : Sound(req[r]) /\ (req[r].pc = "idle" \/ req[r].prof \in Profiles[r])

LEMMA SoundInductive == ASSUME IInv, SoundInv, [Next]_vars PROVE SoundInv'
<1>1. ASSUME NEW r \in Requests, NEW prof \in Profiles[r], Stays(r, prof) PROVE SoundInv'
  <2>1. PICK q : Set(r, q) /\ Sound(q) /\ q.prof = prof
    BY Zenon, <1>1 DEF Stays
  <2>2. \A x \in Requests : req'[x] = IF x = r THEN q ELSE req[x]
    BY Zenon, <2>1 DEF Set, IInv
  <2> QED
    BY Zenon, <2>1, <2>2 DEF SoundInv
<1>2. CASE req' = req
  BY Zenon, <1>2 DEF SoundInv
<1>3. ASSUME NEW r \in Requests, NEW p \in Profiles[r], Arrive(r, p) PROVE SoundInv'
  BY <1>1, <1>3, SoundArrival
<1>4. ASSUME NEW r \in Requests, Step(r) \/ (\E text \in Texts : Relay(r, text)) \/ Upstream(r)
      PROVE  SoundInv'
  <2>1. req[r].prof \in Profiles[r] /\ Sound(req[r])
    BY Zenon, <1>4 DEF SoundInv, Step, Admit, Hit, Miss, GiveUp, Skip, CallFails, CallSucceeds, Sending,
       Finish, Tools, Relay, Upstream, StreamError, StreamEnd, Streaming
  <2>2. CASE Admit(r)
    <3>1. Base(req[r]) /\ req[r].answer = "none"
      BY Zenon, <2>2 DEF IInv, Good, Placed, Admit
    <3> QED
      BY <1>1, <2>1, <2>2, <3>1, SoundAdmission
  <2>3. CASE Hit(r) \/ Miss(r)
    BY <1>1, <2>1, <2>3, SoundHit, SoundMiss
  <2>4. CASE GiveUp(r) \/ Skip(r) \/ CallFails(r)
    BY <1>1, <2>1, <2>4, SoundAttempt
  <2>5. CASE \E text \in Texts, calls \in BOOLEAN : CallSucceeds(r, text, calls)
    BY <1>1, <2>1, <2>5, SoundSuccess
  <2>6. CASE Finish(r) \/ Tools(r)
    BY <1>1, <2>1, <2>6, SoundFinish, SoundTools
  <2>7. CASE (\E text \in Texts : Relay(r, text)) \/ Upstream(r) \/ StreamError(r) \/ StreamEnd(r)
    BY <1>1, <2>1, <2>7, SoundStream
  <2> QED
    BY Zenon, <1>4, <2>2, <2>3, <2>4, <2>5, <2>6, <2>7 DEF Step
<1>5. ASSUME NEW t, Stale(t) \/ Evict(t) \/ Forget(t) PROVE SoundInv'
  BY Zenon, <1>2, <1>5 DEF Stale, Evict, Forget
<1>6. CASE UNCHANGED vars
  BY Zenon, <1>2, <1>6 DEF vars
<1> QED
  BY Zenon, <1>3, <1>4, <1>5, <1>6 DEF Next

LEMMA SoundInitially == Init => SoundInv
<1>1. /\ Idle.pc = "idle" /\ Idle.round = 0 /\ Idle.rated = 0 /\ Idle.paid = 0 /\ Idle.logged = 0
      /\ Idle.sent = {} /\ Idle.at = 1 /\ Idle.answer = "none" /\ ~Idle.prof.eu
  BY Zenon DEF Idle, Fresh, Unused
<1>2. Sound(Idle)
  BY <1>1 DEF Sound, Counts, FirstRound, Stayed, Bound, Planned
<1> QED
  BY Zenon, <1>1, <1>2 DEF Init, SoundInv

\* checkRateLimit and logUsage, with the SkipRateLimit and SkipUsageLog of tool rounds: a
\* client request is counted and logged at most once, however many rounds, retries and
\* fallbacks it takes, and without a tool round it is logged exactly if a provider was paid.
THEOREM CountsOnce == Spec => []CountedOnce
<1>1. IInv /\ SoundInv /\ [Next]_vars => (IInv /\ SoundInv)'
  BY Inductive, SoundInductive
<1>2. SoundInv => CountedOnce
  BY Zenon DEF SoundInv, Sound, Counts, FirstRound, CountedOnce
<1> QED
  BY Initially, SoundInitially, <1>1, <1>2, PTL DEF Spec

\* FilterByResidency after Plan: the messages a client wrote reach no target outside the
\* region it asked for, whatever the health tracker puts first, whichever targets fail.
THEOREM KeptInRegion == Spec => []ResidencyOfMessages
<1>1. IInv /\ SoundInv /\ [Next]_vars => (IInv /\ SoundInv)'
  BY Inductive, SoundInductive
<1>2. SoundInv => ResidencyOfMessages
  BY Zenon DEF SoundInv, Sound, Stayed, Bound, ResidencyOfMessages
<1> QED
  BY Initially, SoundInitially, <1>1, <1>2, PTL DEF Spec
=============================================================================
