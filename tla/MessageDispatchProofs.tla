------------------------- MODULE MessageDispatchProofs -------------------------
(***************************************************************************)
(* Theorems about MessageDispatch for all notices, keys, executions,       *)
(* refreshes and event counts.                                             *)
(***************************************************************************)
EXTENDS MessageDispatch, TLAPS

Working == {"preflight", "fail", "send", "record"}
Unsent == {"preflight", "fail", "send"}

\* A row: exactly the FAILED ones gave their claim up, an ACCEPTED one knows its
\* message, nothing was submitted without a row, or twice, or is on its way without
\* the claim.
RowInv(k) ==
    /\ Exists(k) => (row[k].claimed <=> row[k].status # "FAILED")
    /\ Exists(k) /\ row[k].status = "ACCEPTED" => row[k].message
    /\ provider[k] # "none" => submissions[k] > 0
    /\ submissions[k] > 0 => Exists(k)
    /\ submissions[k] <= 1
    /\ provider[k] \in {"pending", "delivered"} => row[k].claimed

\* No two rows hold a claim on the same event.
ExclusiveClaims ==
    \A j, k \in Keys :
        /\ Exists(j) /\ row[j].claimed /\ Exists(k) /\ row[k].claimed
        /\ row[j].notice = row[k].notice /\ row[j].event = row[k].event
        => j = k

\* An execution that works on a row works on one that is claimed and knows no outcome;
\* before the request, nothing was submitted; its result is true.
CallInv(c) ==
    /\ call[c].pc # "idle" => /\ call[c].key \in Keys
                              /\ call[c].notice \in Notices
                              /\ call[c].detail \in Details
    /\ call[c].pc \in Working => /\ Exists(call[c].key)
                                 /\ row[call[c].key].claimed
                                 /\ ~row[call[c].key].message
                                 /\ row[call[c].key].status \in {"SENDING", "UNKNOWN"}
    /\ call[c].pc \in Unsent => submissions[call[c].key] = 0
    /\ call[c].pc = "record" =>
         /\ submissions[call[c].key] = 1
         /\ call[c].status = "FAILED" => provider[call[c].key] = "failed"
         /\ call[c].status = "DELIVERED" => provider[call[c].key] = "delivered"
         /\ call[c].status = "ACCEPTED" => provider[call[c].key] # "none" /\ call[c].message

\* No two executions work on the same row.
ExclusiveWork ==
    \A c, d \in Calls :
        call[c].pc \in Working /\ call[d].pc \in Working /\ call[c].key = call[d].key => c = d

\* What a refresh is about to write is true, and what it compares with is what the
\* row still says.
RefreshInv(r) ==
    refresh[r].pc # "idle" =>
        /\ refresh[r].key \in Keys
        /\ Exists(refresh[r].key)
        /\ refresh[r].unchanged => row[refresh[r].key].status = refresh[r].seen
        /\ refresh[r].seen \notin {"DELIVERED", "FAILED"}
        /\ refresh[r].seen = "ACCEPTED" => provider[refresh[r].key] # "none"
        /\ refresh[r].pc = "expire" => refresh[r].seen # "ACCEPTED"
        /\ refresh[r].pc \in {"lookup", "store"} => row[refresh[r].key].message
        /\ refresh[r].pc = "store" =>
             /\ refresh[r].result # "SENDING"
             /\ refresh[r].result = "FAILED" => provider[refresh[r].key] = "failed"
             /\ refresh[r].result = "DELIVERED" => provider[refresh[r].key] = "delivered"
             /\ refresh[r].result = "ACCEPTED" => provider[refresh[r].key] # "none"

IInv ==
    /\ TypeOK
    /\ \A k \in Keys : RowInv(k)
    /\ ExclusiveClaims
    /\ \A c \in Calls : CallInv(c)
    /\ ExclusiveWork
    /\ \A r \in Refreshers : RefreshInv(r)
    /\ TruthfulRows

--------------------------------------------------------------------------------
\* No execution, no refresh and no row at the start.
LEMMA InitIInv == Init => IInv
<1> SUFFICES ASSUME Init PROVE IInv
    OBVIOUS
<1>1. NoCall \in Call /\ NoRefresh \in Refresh
  BY MaxEventIsNat DEF NoCall, Call, NoRefresh, Refresh, Statuses, Answers
<1>2. context \in [Notices -> Context]
  BY MaxEventIsNat DEF Init, Context
<1>3. TypeOK
  BY <1>1, <1>2 DEF Init, TypeOK, Outcomes
<1>4. /\ \A k \in Keys : ~Exists(k) /\ provider[k] = "none" /\ submissions[k] = 0
      /\ \A c \in Calls : call[c].pc = "idle"
      /\ \A r \in Refreshers : refresh[r].pc = "idle"
  BY DEF Init, Exists, NoCall, NoRefresh
<1> QED
  BY <1>3, <1>4 DEF IInv, RowInv, ExclusiveClaims, CallInv, ExclusiveWork, RefreshInv,
                    TruthfulRows, Working, Unsent

\* A step that moves one execution only, to before its claim, to its end, or between
\* its claim and its request.
LEMMA CallStep ==
    ASSUME IInv, NEW c \in Calls, NEW v \in Call, call' = [call EXCEPT ![c] = v],
           UNCHANGED <<context, row, refresh, provider, submissions>>,
           \/ v.pc = "idle"
           \/ /\ v.pc \in {"lookup", "claim"}
              /\ v.key \in Keys /\ v.notice \in Notices /\ v.detail \in Details
           \/ /\ call[c].pc \in Unsent /\ v.pc \in Unsent
              /\ v.key = call[c].key /\ v.notice = call[c].notice /\ v.detail = call[c].detail
    PROVE  IInv'
<1>1. /\ call \in [Calls -> Call]
      /\ \A d \in Calls : call'[d] = IF d = c THEN v ELSE call[d]
  BY DEF IInv, TypeOK
<1>2. TypeOK'
  BY <1>1 DEF IInv, TypeOK
<1>3. (\A k \in Keys : RowInv(k))' /\ ExclusiveClaims' /\ TruthfulRows'
  BY DEF IInv, RowInv, ExclusiveClaims, TruthfulRows, Exists
<1>4. ASSUME NEW d \in Calls PROVE CallInv(d)'
  <2>1. CallInv(d) /\ CallInv(c)
    BY DEF IInv
  <2> QED BY <1>1, <2>1 DEF CallInv, Exists, Working, Unsent
<1>5. ExclusiveWork'
  BY <1>1 DEF IInv, ExclusiveWork, Working, Unsent
<1>6. ASSUME NEW r \in Refreshers PROVE RefreshInv(r)'
  BY DEF IInv, RefreshInv, Exists
<1> QED BY <1>2, <1>3, <1>4, <1>5, <1>6 DEF IInv

\* An execution that has answered is an idle one.
LEMMA Answered == ASSUME NEW a \in Answers
                  PROVE  /\ [NoCall EXCEPT !.answer = a] \in Call
                         /\ [NoCall EXCEPT !.answer = a].pc = "idle"
<1>1. NoCall \in Call /\ NoCall.pc = "idle"
  BY MaxEventIsNat DEF NoCall, Call, Statuses, Answers
<1> QED BY <1>1 DEF Call

\* Every refusal and every receipt of a row that was there ends the execution.
LEMMA AnswerStep ==
    ASSUME IInv, NEW c \in Calls, NEW a \in Answers, Answer(c, a),
           UNCHANGED <<context, row, refresh, provider, submissions>>
    PROVE  IInv'
BY Answered, CallStep DEF Answer

\* The lookup that finds nothing, and the check before the request.
LEMMA GotoStep ==
    ASSUME IInv, NEW c \in Calls, NEW l \in {"claim", "fail", "send"}, Goto(c, l),
           l = "claim" => call[c].pc = "lookup",
           l # "claim" => call[c].pc = "preflight",
           UNCHANGED <<context, row, refresh, provider, submissions>>
    PROVE  IInv'
<1> DEFINE v == [call[c] EXCEPT !.pc = l]
<1>1. call[c] \in Call /\ CallInv(c)
  BY DEF IInv, TypeOK
<1>2. /\ v \in Call /\ v.pc = l /\ v.key = call[c].key
      /\ v.notice = call[c].notice /\ v.detail = call[c].detail
  BY <1>1 DEF Call
<1>3. call' = [call EXCEPT ![c] = v]
  BY DEF Goto
<1> HIDE DEF v
<1> QED BY <1>1, <1>2, <1>3, CallStep DEF CallInv, Unsent

\* A request starts with what its preview showed.
LEMMA StartStep == ASSUME IInv, NEW c \in Calls, Start(c) PROVE IInv'
<1>1. PICK k \in Keys, n \in Notices :
        call' = [call EXCEPT ![c] = [NoCall EXCEPT !.pc = "lookup", !.key = k, !.notice = n,
                                                   !.event = context[n].event,
                                                   !.detail = context[n].detail]]
  BY DEF Start
<1> DEFINE v == [NoCall EXCEPT !.pc = "lookup", !.key = k, !.notice = n,
                               !.event = context[n].event, !.detail = context[n].detail]
<1>2. context[n].event \in 0..MaxEvent /\ context[n].detail \in Details
  BY DEF IInv, TypeOK, Context
<1>3. /\ v \in Call /\ v.pc = "lookup" /\ v.key = k /\ v.notice = n
      /\ v.detail = context[n].detail
  BY <1>2 DEF NoCall, Call, Statuses, Answers
<1> HIDE DEF v
<1> QED BY <1>1, <1>2, <1>3, CallStep DEF Start, v

\* A crash leaves the row behind and works on it no longer.
LEMMA CrashStep == ASSUME IInv, NEW c \in Calls, Crash(c) PROVE IInv'
<1>1. NoCall \in Call /\ NoCall.pc = "idle"
  BY MaxEventIsNat DEF NoCall, Call, Statuses, Answers
<1> QED BY <1>1, CallStep DEF Crash

--------------------------------------------------------------------------------
\* A claim fills an empty row whose event nobody holds.
LEMMA ClaimStep == ASSUME IInv, NEW c \in Calls, Claim(c) PROVE IInv'
<1> DEFINE k == call[c].key
           n == call[c].notice
           w == [notice |-> n, event |-> call[c].event, detail |-> call[c].detail,
                 status |-> "SENDING", claimed |-> TRUE, message |-> FALSE, old |-> FALSE]
           v == [call[c] EXCEPT !.pc = "preflight"]
<1>1. call[c] \in Call /\ CallInv(c) /\ call[c].pc = "claim"
  BY DEF IInv, TypeOK, Claim
<1>2. k \in Keys /\ n \in Notices /\ call[c].detail \in Details
      /\ call[c].event \in 0..MaxEvent
  BY <1>1 DEF CallInv, Call
<1>3. /\ w \in Row /\ w.status = "SENDING" /\ w.claimed /\ ~w.message
      /\ w.notice = n /\ w.event = call[c].event
  BY <1>2 DEF Row, Statuses
<1>4. /\ v \in Call /\ v.pc = "preflight" /\ v.key = k /\ v.notice = n
      /\ v.detail = call[c].detail
  BY <1>1 DEF Call
<1>5. /\ row' = [row EXCEPT ![k] = w] /\ call' = [call EXCEPT ![c] = v]
      /\ UNCHANGED <<context, refresh, provider, submissions>>
      /\ ~Exists(k) /\ ~Duplicate(n, call[c].event)
  BY DEF Claim, Goto
<1>6. w # None /\ row \in [Keys -> Row \cup {None}] /\ call \in [Calls -> Call]
  BY <1>3, NoneIsNew DEF IInv, TypeOK
<1> HIDE DEF k, n, w, v
<1>7. /\ \A j \in Keys : row'[j] = IF j = k THEN w ELSE row[j]
      /\ \A d \in Calls : call'[d] = IF d = c THEN v ELSE call[d]
  BY <1>2, <1>5, <1>6
<1>8. TypeOK'
  BY <1>2, <1>3, <1>4, <1>5, <1>6 DEF IInv, TypeOK
<1>9. submissions[k] = 0 /\ provider[k] = "none"
  <2>1. RowInv(k) /\ submissions[k] \in Nat
    BY <1>2 DEF IInv, TypeOK
  <2> QED BY <2>1, <1>5 DEF RowInv
<1>10. ASSUME NEW j \in Keys PROVE RowInv(j)'
  <2>1. RowInv(j)
    BY DEF IInv
  <2> QED BY <2>1, <1>3, <1>5, <1>6, <1>7, <1>9 DEF RowInv, Exists
<1>11. ExclusiveClaims'
  <2>1. \A j \in Keys : Exists(j) /\ row[j].claimed /\ row[j].notice = n
                            => row[j].event # call[c].event
    BY <1>5 DEF Duplicate
  <2> QED BY <2>1, <1>3, <1>5, <1>6, <1>7 DEF IInv, ExclusiveClaims, Exists
<1>12. TruthfulRows'
  BY <1>3, <1>5, <1>6, <1>7 DEF IInv, TruthfulRows, Exists
<1>13. ASSUME NEW d \in Calls PROVE CallInv(d)'
  <2>1. CallInv(d)
    BY DEF IInv
  <2>2. CASE d = c
    BY <2>2, <1>1, <1>2, <1>3, <1>4, <1>5, <1>6, <1>7, <1>9 DEF CallInv, Exists, Working, Unsent
  <2>3. CASE d # c
    BY <2>1, <2>3, <1>5, <1>7 DEF CallInv, Exists, Working, Unsent
  <2> QED BY <2>2, <2>3
<1>14. ExclusiveWork'
  <2>1. \A d \in Calls : call[d].pc \in Working => call[d].key # k
    BY <1>5 DEF IInv, CallInv
  <2> QED BY <2>1, <1>4, <1>7 DEF IInv, ExclusiveWork
<1>15. ASSUME NEW r \in Refreshers PROVE RefreshInv(r)'
  <2>1. RefreshInv(r)
    BY DEF IInv
  <2> QED BY <2>1, <1>5, <1>7 DEF RefreshInv, Exists
<1> QED BY <1>8, <1>10, <1>11, <1>12, <1>13, <1>14, <1>15 DEF IInv

\* The request is made once, by the one execution that works on the row.
LEMMA SendStep == ASSUME IInv, NEW c \in Calls, Send(c) PROVE IInv'
<1> DEFINE k == call[c].key
<1>1. call[c] \in Call /\ CallInv(c) /\ call[c].pc = "send"
  BY DEF IInv, TypeOK, Send
<1>2. /\ k \in Keys /\ Exists(k) /\ row[k].claimed /\ ~row[k].message /\ submissions[k] = 0
      /\ row[k].status \in {"SENDING", "UNKNOWN"}
  BY <1>1 DEF CallInv, Working, Unsent
<1>3. provider[k] = "none" /\ row[k].status \notin {"DELIVERED", "FAILED", "ACCEPTED"}
  <2>1. RowInv(k) /\ TruthfulRows
    BY <1>2 DEF IInv
  <2> QED BY <2>1, <1>2 DEF RowInv, TruthfulRows
<1>3a. PICK outcome \in Outcomes : \E report \in Report(outcome) :
         /\ provider' = [provider EXCEPT ![k] = outcome]
         /\ call' = [call EXCEPT ![c].pc = "record", ![c].status = report.status,
                                 ![c].message = report.message]
  BY DEF Send
<1>4. PICK report \in Report(outcome) :
        /\ provider' = [provider EXCEPT ![k] = outcome]
        /\ call' = [call EXCEPT ![c].pc = "record", ![c].status = report.status,
                                ![c].message = report.message]
  BY <1>3a
<1> DEFINE v == [call[c] EXCEPT !.pc = "record", !.status = report.status,
                                !.message = report.message]
<1>5. /\ report.status \in Statuses /\ report.message \in BOOLEAN
      /\ report.status = "FAILED" => outcome = "failed"
      /\ report.status = "DELIVERED" => outcome = "delivered"
      /\ report.status = "ACCEPTED" => outcome # "none" /\ report.message
  BY DEF Report
<1>6. /\ v \in Call /\ v.pc = "record" /\ v.key = k /\ v.notice = call[c].notice
      /\ v.detail = call[c].detail /\ v.status = report.status /\ v.message = report.message
  BY <1>1, <1>5 DEF Call
<1>7. /\ call' = [call EXCEPT ![c] = v]
      /\ provider' = [provider EXCEPT ![k] = outcome]
      /\ submissions' = [submissions EXCEPT ![k] = @ + 1]
      /\ UNCHANGED <<context, row, refresh>>
  BY <1>4 DEF Send
<1> HIDE DEF k, v
<1>8. /\ provider \in [Keys -> Outcomes] /\ submissions \in [Keys -> Nat]
      /\ call \in [Calls -> Call]
  BY DEF IInv, TypeOK
<1>9. /\ \A d \in Calls : call'[d] = IF d = c THEN v ELSE call[d]
      /\ \A j \in Keys : /\ provider'[j] = IF j = k THEN outcome ELSE provider[j]
                         /\ submissions'[j] = IF j = k THEN 1 ELSE submissions[j]
  BY <1>2, <1>7, <1>8
<1>10. TypeOK'
  BY <1>2, <1>6, <1>7, <1>8 DEF IInv, TypeOK
<1>11. ASSUME NEW j \in Keys PROVE RowInv(j)'
  <2>1. RowInv(j)
    BY DEF IInv
  <2> QED BY <2>1, <1>2, <1>7, <1>9 DEF RowInv, Exists
<1>12. ExclusiveClaims'
  BY <1>7 DEF IInv, ExclusiveClaims, Exists
<1>13. TruthfulRows'
  BY <1>3, <1>7, <1>9 DEF IInv, TruthfulRows, Exists
<1>14. ASSUME NEW d \in Calls PROVE CallInv(d)'
  <2>1. CallInv(d) /\ (call[d].pc \in Working /\ call[d].key = k => d = c)
    BY <1>1 DEF IInv, ExclusiveWork, Working, k
  <2>2. CASE d = c
    BY <2>2, <1>1, <1>2, <1>5, <1>6, <1>7, <1>9 DEF CallInv, Exists, Working, Unsent
  <2>3. CASE d # c
    BY <2>1, <2>3, <1>7, <1>9 DEF CallInv, Exists, Working, Unsent
  <2> QED BY <2>2, <2>3
<1>15. ExclusiveWork'
  BY <1>1, <1>6, <1>9 DEF IInv, ExclusiveWork, Working, k
<1>16. ASSUME NEW r \in Refreshers PROVE RefreshInv(r)'
  <2>1. RefreshInv(r)
    BY DEF IInv
  <2> QED BY <2>1, <1>2, <1>3, <1>7, <1>9 DEF RefreshInv, Exists
<1> QED BY <1>10, <1>11, <1>12, <1>13, <1>14, <1>15, <1>16 DEF IInv

\* An execution, at its end, writes w to its row: a status that is true, and no
\* claim any more if the status is FAILED.
LEMMA EndStep ==
    ASSUME IInv, NEW c \in Calls, call[c].pc \in {"fail", "record"}, NEW w \in Row,
           row' = [row EXCEPT ![call[c].key] = w],
           Answer(c, "receipt"), refresh' = Touch(call[c].key),
           UNCHANGED <<context, provider, submissions>>,
           w.claimed <=> w.status # "FAILED",
           w.notice = row[call[c].key].notice, w.event = row[call[c].key].event,
           w.status = "FAILED" => provider[call[c].key] \in {"none", "failed"},
           w.status = "DELIVERED" => provider[call[c].key] = "delivered",
           w.status = "ACCEPTED" => provider[call[c].key] # "none" /\ w.message
    PROVE  IInv'
<1> DEFINE k == call[c].key
           v == [NoCall EXCEPT !.answer = "receipt"]
<1>1. call[c] \in Call /\ CallInv(c)
  BY DEF IInv, TypeOK
<1>2. k \in Keys /\ Exists(k) /\ row[k].claimed /\ ~row[k].message
  BY <1>1 DEF CallInv, Working
<1>3. row \in [Keys -> Row \cup {None}] /\ call \in [Calls -> Call] /\ row[k] \in Row
      /\ refresh \in [Refreshers -> Refresh]
  BY <1>2 DEF IInv, TypeOK, Exists
<1>4. w.notice = row[k].notice /\ w.event = row[k].event
  OBVIOUS
<1>5. v \in Call /\ v.pc = "idle"
  BY Answered DEF Answers
<1>6. row' = [row EXCEPT ![k] = w] /\ call' = [call EXCEPT ![c] = v] /\ w # None
  BY NoneIsNew DEF Answer
<1> HIDE DEF v
<1>7. /\ \A j \in Keys : row'[j] = IF j = k THEN w ELSE row[j]
      /\ \A d \in Calls : call'[d] = IF d = c THEN v ELSE call[d]
  BY <1>2, <1>3, <1>6
<1>8. \A r \in Refreshers :
        /\ refresh'[r] \in Refresh /\ refresh'[r].pc = refresh[r].pc
        /\ refresh'[r].key = refresh[r].key /\ refresh'[r].seen = refresh[r].seen
        /\ refresh'[r].result = refresh[r].result
        /\ refresh'[r].unchanged => refresh[r].unchanged /\ refresh[r].key # k
  BY <1>3 DEF Touch, Refresh
<1>9. TypeOK'
  <2>1. refresh' \in [Refreshers -> Refresh]
    BY <1>8 DEF Touch
  <2> QED BY <2>1, <1>2, <1>3, <1>4, <1>5, <1>6 DEF IInv, TypeOK
<1>10. ASSUME NEW j \in Keys PROVE RowInv(j)'
  <2>1. RowInv(j)
    BY DEF IInv
  <2> QED BY <2>1, <1>2, <1>4, <1>6, <1>7 DEF RowInv, Exists
<1>11. ExclusiveClaims'
  BY <1>2, <1>4, <1>6, <1>7 DEF IInv, ExclusiveClaims, Exists
<1>12. TruthfulRows'
  BY <1>4, <1>6, <1>7 DEF IInv, TruthfulRows, Exists
<1>13. ASSUME NEW d \in Calls PROVE CallInv(d)'
  <2>1. CallInv(d) /\ (call[d].pc \in Working /\ call[d].key = k => d = c)
    BY DEF IInv, ExclusiveWork, Working
  <2> QED BY <2>1, <1>5, <1>7 DEF CallInv, Exists, Working, Unsent
<1>14. ExclusiveWork'
  BY <1>5, <1>7 DEF IInv, ExclusiveWork, Working
<1>15. ASSUME NEW r \in Refreshers PROVE RefreshInv(r)'
  <2>1. RefreshInv(r)
    BY DEF IInv
  <2> QED BY <2>1, <1>2, <1>6, <1>7, <1>8 DEF RefreshInv, Exists
<1> QED BY <1>9, <1>10, <1>11, <1>12, <1>13, <1>14, <1>15 DEF IInv

\* Nothing was sent: the row fails.
LEMMA FailStep == ASSUME IInv, NEW c \in Calls, RecordLocalFailure(c) PROVE IInv'
<1> DEFINE k == call[c].key
           w == [row[k] EXCEPT !.status = "FAILED", !.claimed = ClaimAfter("FAILED", @)]
<1>1. CallInv(c) /\ call[c].pc = "fail"
  BY DEF IInv, RecordLocalFailure
<1>2. k \in Keys /\ Exists(k) /\ submissions[k] = 0
  BY <1>1 DEF CallInv, Working, Unsent
<1>3. row[k] \in Row /\ RowInv(k)
  BY <1>2 DEF IInv, TypeOK, Exists
<1>4. /\ w \in Row /\ w.status = "FAILED" /\ ~w.claimed
      /\ w.notice = row[k].notice /\ w.event = row[k].event
  BY <1>3 DEF Row, Statuses, ClaimAfter
<1>5. row' = [row EXCEPT ![k] = w]
  BY DEF RecordLocalFailure
<1>6. provider[k] = "none"
  BY <1>2, <1>3 DEF RowInv
<1> HIDE DEF w
<1> QED BY <1>1, <1>4, <1>5, <1>6, EndStep DEF RecordLocalFailure

\* The result of the request is true when it is written, however late.
LEMMA RecordStep == ASSUME IInv, NEW c \in Calls, Record(c) PROVE IInv'
<1> DEFINE k == call[c].key
           w == [row[k] EXCEPT !.status = call[c].status, !.message = call[c].message,
                               !.claimed = ClaimAfter(call[c].status, @)]
<1>1. call[c] \in Call /\ CallInv(c) /\ call[c].pc = "record"
  BY DEF IInv, TypeOK, Record
<1>2. k \in Keys /\ Exists(k) /\ row[k].claimed
  BY <1>1 DEF CallInv, Working
<1>3. row[k] \in Row
  BY <1>2 DEF IInv, TypeOK, Exists
<1>4. /\ w \in Row /\ w.status = call[c].status /\ w.message = call[c].message
      /\ w.claimed <=> w.status # "FAILED"
      /\ w.notice = row[k].notice /\ w.event = row[k].event
  BY <1>1, <1>2, <1>3 DEF Row, Call, ClaimAfter
<1>5. row' = [row EXCEPT ![k] = w]
  BY DEF Record
<1>6. /\ w.status = "FAILED" => provider[k] = "failed"
      /\ w.status = "DELIVERED" => provider[k] = "delivered"
      /\ w.status = "ACCEPTED" => provider[k] # "none" /\ w.message
  BY <1>1, <1>4 DEF CallInv
<1> HIDE DEF w
<1> QED BY <1>1, <1>4, <1>5, <1>6, EndStep DEF Record

--------------------------------------------------------------------------------
\* The write of a refresh: either the row is still what the refresh read, or nothing
\* is written.  Only a refresh that looked up a message can find out that it failed.
LEMMA WriteStep ==
    ASSUME IInv, NEW r \in Refreshers, refresh[r].pc \in {"expire", "store"},
           NEW s \in Statuses, CheckedWrite(r, s), UNCHANGED <<context, call, provider, submissions>>,
           refresh[r].pc = "expire" => s = "UNKNOWN",
           s = "FAILED" => provider[refresh[r].key] = "failed",
           s = "DELIVERED" => provider[refresh[r].key] = "delivered",
           s = "ACCEPTED" => provider[refresh[r].key] # "none"
    PROVE  IInv'
<1> DEFINE k == refresh[r].key
           w == [row[k] EXCEPT !.status = s, !.claimed = ClaimAfter(s, @)]
<1>1. RefreshInv(r) /\ refresh \in [Refreshers -> Refresh] /\ row \in [Keys -> Row \cup {None}]
  BY DEF IInv, TypeOK
<1>2. k \in Keys /\ Exists(k) /\ row[k] \in Row /\ RowInv(k)
  BY <1>1 DEF RefreshInv, Exists, IInv
<1>3. NoRefresh \in Refresh /\ NoRefresh.pc = "idle"
  BY DEF NoRefresh, Refresh, Statuses
<1>4. CASE ~refresh[r].unchanged
  <2>1. /\ refresh' = [refresh EXCEPT ![r] = NoRefresh]
        /\ UNCHANGED <<context, row, call, provider, submissions>>
    BY <1>4 DEF CheckedWrite
  <2>2. \A q \in Refreshers : refresh'[q] = IF q = r THEN NoRefresh ELSE refresh[q]
    BY <1>1, <2>1
  <2>3. TypeOK'
    BY <1>1, <1>3, <2>1 DEF IInv, TypeOK
  <2>4. (\A j \in Keys : RowInv(j))' /\ ExclusiveClaims' /\ TruthfulRows' /\ ExclusiveWork'
    BY <2>1 DEF IInv, RowInv, ExclusiveClaims, TruthfulRows, ExclusiveWork, Exists
  <2>5. (\A d \in Calls : CallInv(d))'
    BY <2>1 DEF IInv, CallInv, Exists
  <2>6. ASSUME NEW q \in Refreshers PROVE RefreshInv(q)'
    <3>1. RefreshInv(q)
      BY DEF IInv
    <3> QED BY <3>1, <1>3, <2>1, <2>2 DEF RefreshInv, Exists
  <2> QED BY <2>3, <2>4, <2>5, <2>6 DEF IInv
<1>5. CASE refresh[r].unchanged
  <2>1. /\ row' = [row EXCEPT ![k] = w]
        /\ refresh' = [Touch(k) EXCEPT ![r] = NoRefresh]
    BY <1>5 DEF CheckedWrite
  <2>2. row[k].claimed /\ row[k].status = refresh[r].seen
    BY <1>1, <1>2, <1>5 DEF RefreshInv, RowInv
  <2>3. /\ w \in Row /\ w.status = s /\ w.message = row[k].message
        /\ w.claimed <=> s # "FAILED"
        /\ w.notice = row[k].notice /\ w.event = row[k].event
    BY <1>2, <2>2 DEF Row, ClaimAfter
  <2> HIDE DEF w
  <2>4. /\ w # None
        /\ \A j \in Keys : row'[j] = IF j = k THEN w ELSE row[j]
    BY <1>1, <1>2, <2>1, <2>3, NoneIsNew
  <2>5. \A q \in Refreshers :
          /\ q = r => refresh'[q] = NoRefresh
          /\ q # r => /\ refresh'[q] \in Refresh /\ refresh'[q].pc = refresh[q].pc
                      /\ refresh'[q].key = refresh[q].key /\ refresh'[q].seen = refresh[q].seen
                      /\ refresh'[q].result = refresh[q].result
                      /\ refresh'[q].unchanged => refresh[q].unchanged /\ refresh[q].key # k
    BY <1>1, <2>1 DEF Touch, Refresh
  <2>6. TypeOK'
    <3>1. refresh' \in [Refreshers -> Refresh]
      BY <1>3, <2>1, <2>5 DEF Touch
    <3> QED BY <3>1, <1>1, <1>2, <2>1, <2>3 DEF IInv, TypeOK
  <2>7. ASSUME NEW j \in Keys PROVE RowInv(j)'
    <3>1. RowInv(j) /\ (s = "ACCEPTED" => row[k].message)
      BY <1>1 DEF IInv, RefreshInv
    <3> QED BY <3>1, <1>2, <2>2, <2>3, <2>4 DEF RowInv, Exists
  <2>8. ExclusiveClaims'
    BY <1>2, <2>2, <2>3, <2>4 DEF IInv, ExclusiveClaims, Exists
  <2>9. TruthfulRows'
    BY <2>3, <2>4 DEF IInv, TruthfulRows, Exists
  <2>10. ASSUME NEW d \in Calls PROVE CallInv(d)'
    <3>1. CallInv(d)
      BY DEF IInv
    <3>2. s # "UNKNOWN" => row[k].message
      BY <1>1 DEF RefreshInv
    <3> QED BY <3>1, <3>2, <1>2, <2>3, <2>4 DEF CallInv, Exists, Working, Unsent
  <2>11. ExclusiveWork'
    BY DEF IInv, ExclusiveWork
  <2>12. ASSUME NEW q \in Refreshers PROVE RefreshInv(q)'
    <3>1. RefreshInv(q)
      BY DEF IInv
    <3> QED BY <3>1, <1>3, <2>3, <2>4, <2>5 DEF RefreshInv, Exists
  <2> QED BY <2>6, <2>7, <2>8, <2>9, <2>10, <2>11, <2>12 DEF IInv
<1> QED BY <1>4, <1>5

\* A step that moves one refresh only, to a record whose invariant holds.
LEMMA RefreshOnlyStep ==
    ASSUME IInv, NEW r \in Refreshers, NEW v \in Refresh, refresh' = [refresh EXCEPT ![r] = v],
           UNCHANGED <<context, row, call, provider, submissions>>,
           RefreshInv(r)'
    PROVE  IInv'
<1>1. \A q \in Refreshers : refresh'[q] = IF q = r THEN v ELSE refresh[q]
  BY DEF IInv, TypeOK
<1>2. TypeOK'
  BY DEF IInv, TypeOK
<1>3. (\A j \in Keys : RowInv(j))' /\ ExclusiveClaims' /\ TruthfulRows' /\ ExclusiveWork'
  BY DEF IInv, RowInv, ExclusiveClaims, TruthfulRows, ExclusiveWork, Exists
<1>4. (\A d \in Calls : CallInv(d))'
  BY DEF IInv, CallInv, Exists
<1>5. ASSUME NEW q \in Refreshers PROVE RefreshInv(q)'
  <2>1. RefreshInv(q)
    BY DEF IInv
  <2> QED BY <2>1, <1>1 DEF RefreshInv, Exists
<1> QED BY <1>2, <1>3, <1>4, <1>5 DEF IInv

\* A refresh reads a row that has no final outcome yet.
LEMMA ReadStep == ASSUME IInv, NEW r \in Refreshers, NEW k \in Keys, RefreshRead(r, k)
                  PROVE  IInv'
<1> DEFINE v == [refresh[r] EXCEPT !.key = k, !.seen = row[k].status, !.unchanged = TRUE,
                                   !.pc = IF row[k].message THEN "lookup" ELSE "expire"]
<1>1. /\ refresh \in [Refreshers -> Refresh] /\ row[k] \in Row /\ TruthfulRows /\ RowInv(k)
      /\ Exists(k) /\ row[k].status \notin {"DELIVERED", "FAILED"}
  BY DEF IInv, TypeOK, RefreshRead, Exists
<1>2. /\ refresh' = [refresh EXCEPT ![r] = v]
      /\ UNCHANGED <<context, row, call, provider, submissions>>
  BY DEF RefreshRead
<1>3. /\ v \in Refresh /\ v.key = k /\ v.seen = row[k].status
      /\ v.pc = IF row[k].message THEN "lookup" ELSE "expire"
  BY <1>1 DEF Refresh, Row
<1> HIDE DEF v
<1>4. RefreshInv(r)'
  BY <1>1, <1>2, <1>3 DEF RefreshInv, TruthfulRows, RowInv, Exists
<1> QED BY <1>2, <1>3, <1>4, RefreshOnlyStep

\* The provider tells what became of the message.
LEMMA LookupStep == ASSUME IInv, NEW r \in Refreshers, RefreshLookup(r) PROVE IInv'
<1>1. PICK s \in Reported(provider[refresh[r].key]) :
        refresh' = [refresh EXCEPT ![r].pc = "store", ![r].result = s]
  BY DEF RefreshLookup
<1> DEFINE v == [refresh[r] EXCEPT !.pc = "store", !.result = s]
<1>2. /\ refresh[r] \in Refresh /\ refresh \in [Refreshers -> Refresh]
      /\ RefreshInv(r) /\ refresh[r].pc = "lookup"
      /\ UNCHANGED <<context, row, call, provider, submissions>>
  BY DEF IInv, TypeOK, RefreshLookup
<1>3. refresh[r].key \in Keys /\ provider[refresh[r].key] \in Outcomes
  BY <1>2 DEF RefreshInv, IInv, TypeOK
<1>4. /\ s \in Statuses \ {"SENDING"}
      /\ s = "FAILED" => provider[refresh[r].key] = "failed"
      /\ s = "DELIVERED" => provider[refresh[r].key] = "delivered"
      /\ s = "ACCEPTED" => provider[refresh[r].key] # "none"
  BY <1>3 DEF Reported, Outcomes, Statuses
<1>5. /\ v \in Refresh /\ v.pc = "store" /\ v.result = s
      /\ v.key = refresh[r].key /\ v.seen = refresh[r].seen /\ v.unchanged = refresh[r].unchanged
  BY <1>2, <1>4 DEF Refresh
<1>6. refresh' = [refresh EXCEPT ![r] = v]
  BY <1>1
<1> HIDE DEF v
<1>7. RefreshInv(r)'
  BY <1>2, <1>4, <1>5, <1>6 DEF RefreshInv, Exists
<1> QED BY <1>2, <1>5, <1>6, <1>7, RefreshOnlyStep

\* A refresh that dies leaves nothing.
LEMMA RefreshCrashStep == ASSUME IInv, NEW r \in Refreshers, RefreshCrash(r) PROVE IInv'
<1>1. NoRefresh \in Refresh /\ NoRefresh.pc = "idle"
  BY DEF NoRefresh, Refresh, Statuses
<1>2. RefreshInv(r)'
  BY <1>1 DEF RefreshCrash, RefreshInv, IInv, TypeOK
<1> QED BY <1>1, <1>2, RefreshOnlyStep DEF RefreshCrash

\* Both ends of a refresh write what WriteStep allows.
LEMMA RefreshStepStep == ASSUME IInv, NEW r \in Refreshers, RefreshStep(r) PROVE IInv'
<1>1. CASE \E k \in Keys : RefreshRead(r, k)
  BY <1>1, ReadStep
<1>2. CASE RefreshExpire(r)
  BY <1>2, WriteStep DEF RefreshExpire, Statuses
<1>3. CASE RefreshLookup(r)
  BY <1>3, LookupStep
<1>4. CASE RefreshStore(r)
  <2> DEFINE s == KeepAcceptance(refresh[r].seen, refresh[r].result)
  <2>1. RefreshInv(r) /\ refresh[r] \in Refresh /\ refresh[r].pc = "store"
    BY <1>4 DEF IInv, TypeOK, RefreshStore
  <2>2. /\ s \in Statuses
        /\ s = "FAILED" => provider[refresh[r].key] = "failed"
        /\ s = "DELIVERED" => provider[refresh[r].key] = "delivered"
        /\ s = "ACCEPTED" => provider[refresh[r].key] # "none"
    BY <2>1 DEF RefreshInv, KeepAcceptance, Refresh
  <2>3. CheckedWrite(r, s) /\ UNCHANGED <<context, call, provider, submissions>>
    BY <1>4 DEF RefreshStore
  <2> HIDE DEF s
  <2> QED BY <2>1, <2>2, <2>3, WriteStep
<1> QED BY <1>1, <1>2, <1>3, <1>4 DEF RefreshStep

--------------------------------------------------------------------------------
\* Only a row that holds its claim can have a message on its way.
LEMMA SettleStep == ASSUME IInv, NEW k \in Keys, Settle(k) PROVE IInv'
<1>1. PICK outcome \in {"delivered", "failed"} : provider' = [provider EXCEPT ![k] = outcome]
  BY DEF Settle
<1>2. /\ provider[k] = "pending" /\ UNCHANGED <<context, row, call, refresh, submissions>>
      /\ \A j \in Keys : provider'[j] = IF j = k THEN outcome ELSE provider[j]
  BY <1>1 DEF Settle, IInv, TypeOK
<1>3. TypeOK'
  BY <1>1, <1>2 DEF IInv, TypeOK, Outcomes
<1>4. (\A j \in Keys : RowInv(j))' /\ ExclusiveClaims' /\ ExclusiveWork'
  BY <1>2 DEF IInv, RowInv, ExclusiveClaims, ExclusiveWork, Exists
<1>5. TruthfulRows'
  <2>1. RowInv(k)
    BY DEF IInv
  <2> QED BY <2>1, <1>2 DEF IInv, TruthfulRows, RowInv, Exists
<1>6. ASSUME NEW d \in Calls PROVE CallInv(d)'
  <2>1. CallInv(d)
    BY DEF IInv
  <2> QED BY <2>1, <1>2 DEF CallInv, Exists, Working
<1>7. ASSUME NEW q \in Refreshers PROVE RefreshInv(q)'
  <2>1. RefreshInv(q)
    BY DEF IInv
  <2> QED BY <2>1, <1>2 DEF RefreshInv, Exists
<1> QED BY <1>3, <1>4, <1>5, <1>6, <1>7 DEF IInv

\* A row that gets older says the same.
LEMMA AgeStep == ASSUME IInv, NEW k \in Keys, Age(k) PROVE IInv'
<1> DEFINE w == [row[k] EXCEPT !.old = TRUE]
<1>1. /\ row \in [Keys -> Row \cup {None}] /\ row[k] \in Row
      /\ row' = [row EXCEPT ![k] = w] /\ UNCHANGED <<context, call, refresh, provider, submissions>>
  BY DEF Age, IInv, TypeOK, Exists
<1>2. /\ w \in Row /\ w.status = row[k].status /\ w.claimed = row[k].claimed
      /\ w.message = row[k].message /\ w.notice = row[k].notice /\ w.event = row[k].event
  BY <1>1 DEF Row
<1> HIDE DEF w
<1>3. /\ w # None /\ row[k] # None
      /\ \A j \in Keys : row'[j] = IF j = k THEN w ELSE row[j]
  BY <1>1, <1>2, NoneIsNew
<1>4. TypeOK'
  BY <1>1, <1>2 DEF IInv, TypeOK
<1>5. ASSUME NEW j \in Keys PROVE RowInv(j)'
  <2>1. RowInv(j)
    BY DEF IInv
  <2> QED BY <2>1, <1>1, <1>2, <1>3 DEF RowInv, Exists
<1>6. ExclusiveClaims' /\ TruthfulRows' /\ ExclusiveWork'
  BY <1>1, <1>2, <1>3 DEF IInv, ExclusiveClaims, TruthfulRows, ExclusiveWork, Exists
<1>7. ASSUME NEW d \in Calls PROVE CallInv(d)'
  <2>1. CallInv(d)
    BY DEF IInv
  <2> QED BY <2>1, <1>1, <1>2, <1>3 DEF CallInv, Exists, Working, Unsent
<1>8. ASSUME NEW q \in Refreshers PROVE RefreshInv(q)'
  <2>1. RefreshInv(q)
    BY DEF IInv
  <2> QED BY <2>1, <1>1, <1>2, <1>3 DEF RefreshInv, Exists
<1> QED BY <1>4, <1>5, <1>6, <1>7, <1>8 DEF IInv

\* The context is in no part of the invariant but its type.
LEMMA ChangeStep == ASSUME IInv, NEW n \in Notices, Change(n) PROVE IInv'
<1>1. UNCHANGED <<row, call, refresh, provider, submissions>>
  BY DEF Change
<1>2. TypeOK'
  <2>1. PICK e \in {context[n].event, context[n].event + 1}, d \in Details, b \in BOOLEAN :
          /\ e <= MaxEvent
          /\ context' = [context EXCEPT ![n] = [event |-> e, detail |-> d, ready |-> b]]
    BY DEF Change
  <2>2. context \in [Notices -> Context] /\ context[n].event \in 0..MaxEvent
    BY DEF IInv, TypeOK, Context
  <2>3. [event |-> e, detail |-> d, ready |-> b] \in Context
    BY <2>1, <2>2, MaxEventIsNat DEF Context
  <2> QED BY <1>1, <2>1, <2>2, <2>3 DEF IInv, TypeOK
<1>3. (\A j \in Keys : RowInv(j))' /\ ExclusiveClaims' /\ TruthfulRows' /\ ExclusiveWork'
  BY <1>1 DEF IInv, RowInv, ExclusiveClaims, TruthfulRows, ExclusiveWork, Exists
<1>4. (\A d \in Calls : CallInv(d))' /\ (\A r \in Refreshers : RefreshInv(r))'
  BY <1>1 DEF IInv, CallInv, RefreshInv, Exists
<1> QED BY <1>2, <1>3, <1>4 DEF IInv

\* Every step of an execution of dispatch().
LEMMA DispatchStep == ASSUME IInv, NEW c \in Calls, Dispatch(c) PROVE IInv'
<1>1. CASE Lookup(c)
  BY <1>1, AnswerStep, GotoStep DEF Lookup, ExistingResult, Answers
<1>2. CASE ClaimDuplicate(c) \/ ClaimKeyTaken(c) \/ ClaimRefused(c)
  BY <1>2, AnswerStep DEF ClaimDuplicate, ClaimKeyTaken, ClaimRefused, ExistingResult, Answers
<1>3. CASE Preflight(c) \/ PreflightRefused(c)
  BY <1>3, GotoStep DEF Preflight, PreflightRefused
<1> QED BY <1>1, <1>2, <1>3, ClaimStep, FailStep, SendStep, RecordStep DEF Dispatch

\* The invariant is inductive.
LEMMA NextStep == IInv /\ [Next]_vars => IInv'
<1> SUFFICES ASSUME IInv, [Next]_vars PROVE IInv'
    OBVIOUS
<1>1. CASE UNCHANGED vars
  BY <1>1 DEF vars, IInv, TypeOK, RowInv, ExclusiveClaims, CallInv, ExclusiveWork, RefreshInv,
              TruthfulRows, Exists
<1>2. CASE Next
  BY <1>2, StartStep, DispatchStep, CrashStep, RefreshStepStep, RefreshCrashStep, SettleStep,
     AgeStep, ChangeStep DEF Next
<1> QED BY <1>1, <1>2

\* So it always holds.
THEOREM Invariant == Spec => []IInv
BY InitIInv, NextStep, PTL DEF Spec

\* Every variable stays in its type, for every number of requests and refreshes.
THEOREM TypeCorrect == Spec => []TypeOK
BY Invariant, PTL DEF IInv

\* Whatever races, crashes and lost answers there are, the provider holds at most
\* one message of an event that was or may still be delivered: the row of such a
\* message still holds its claim, and claims are exclusive.
THEOREM OneNotice == Spec => []OneNoticePerEvent
<1>1. IInv => OneNoticePerEvent
  BY DEF IInv, RowInv, ExclusiveClaims, OneNoticePerEvent
<1> QED BY <1>1, Invariant, PTL

\* No key is submitted twice.
THEOREM OneSubmission == Spec => []OneSubmissionPerKey
<1>1. IInv => OneSubmissionPerKey
  BY DEF IInv, RowInv, OneSubmissionPerKey
<1> QED BY <1>1, Invariant, PTL

\* The table never claims an outcome that is not the provider's.
THEOREM Truthful == Spec => []TruthfulRows
BY Invariant, PTL DEF IInv

\* A recorded outcome stays, and an acceptance becomes nothing but an outcome: a
\* terminal row has no execution left that works on it, and a refresh writes only over
\* what it read, which was not terminal.
THEOREM Regression == Spec => NoRegression
<1> DEFINE Keeps == \A k \in Keys : Exists(k) =>
             /\ row[k].status \in {"DELIVERED", "FAILED"} => row'[k].status = row[k].status
             /\ row[k].status = "ACCEPTED" => row'[k].status \in {"ACCEPTED", "DELIVERED", "FAILED"}
<1>1. IInv /\ [Next]_vars => [Keeps]_vars
  <2> SUFFICES ASSUME IInv, Next PROVE Keeps
      BY DEF vars
  <2>1. CASE UNCHANGED row
    BY <2>1
  <2>2. ASSUME NEW c \in Calls, Dispatch(c) PROVE Keeps
    <3> DEFINE k == call[c].key
    <3>1. CallInv(c) /\ row \in [Keys -> Row \cup {None}]
      BY DEF IInv, TypeOK
    <3>2. CASE Claim(c)
      BY <3>1, <3>2 DEF Claim
    <3>3. CASE RecordLocalFailure(c)
      <4>1. row' = [row EXCEPT ![k] = [row[k] EXCEPT !.status = "FAILED",
                                                     !.claimed = ClaimAfter("FAILED", @)]]
        BY <3>3 DEF RecordLocalFailure
      <4>2. row[k].status \in {"SENDING", "UNKNOWN"}
        BY <3>1, <3>3 DEF RecordLocalFailure, CallInv, Working
      <4> QED BY <3>1, <4>1, <4>2
    <3>4. CASE Record(c)
      <4>1. row' = [row EXCEPT ![k] = [row[k] EXCEPT !.status = call[c].status,
                                                     !.message = call[c].message,
                                                     !.claimed = ClaimAfter(call[c].status, @)]]
        BY <3>4 DEF Record
      <4>2. row[k].status \in {"SENDING", "UNKNOWN"}
        BY <3>1, <3>4 DEF Record, CallInv, Working
      <4> QED BY <3>1, <4>1, <4>2
    <3> QED
      BY <2>1, <2>2, <3>2, <3>3, <3>4
         DEF Dispatch, Lookup, ClaimDuplicate, ClaimKeyTaken, ClaimRefused, Preflight,
             PreflightRefused, Send
  <2>3. ASSUME NEW r \in Refreshers, RefreshStep(r) PROVE Keeps
    <3> DEFINE k == refresh[r].key
    <3>1. RefreshInv(r) /\ row \in [Keys -> Row \cup {None}] /\ refresh[r] \in Refresh
      BY DEF IInv, TypeOK
    <3>2. ASSUME NEW s \in Statuses, CheckedWrite(r, s), refresh[r].pc # "idle",
                 refresh[r].seen = "ACCEPTED" => s \in {"ACCEPTED", "DELIVERED", "FAILED"}
          PROVE  Keeps
      <4>1. CASE ~refresh[r].unchanged
        BY <2>1, <3>2, <4>1 DEF CheckedWrite
      <4>2. CASE refresh[r].unchanged
        <5> DEFINE w == [row[k] EXCEPT !.status = s, !.claimed = ClaimAfter(s, @)]
        <5>1. row' = [row EXCEPT ![k] = w]
          BY <3>2, <4>2 DEF CheckedWrite
        <5>2. /\ k \in Keys /\ Exists(k) /\ row[k].status = refresh[r].seen
              /\ refresh[r].seen \notin {"DELIVERED", "FAILED"}
          BY <3>1, <3>2, <4>2 DEF RefreshInv
        <5>3. w.status = s
          BY <3>1, <5>2 DEF Exists, Row
        <5> HIDE DEF w
        <5> QED BY <3>1, <3>2, <5>1, <5>2, <5>3
      <4> QED BY <4>1, <4>2
    <3>3. CASE RefreshExpire(r)
      BY <3>1, <3>2, <3>3 DEF RefreshExpire, RefreshInv, Statuses
    <3>4. CASE RefreshStore(r)
      <4> DEFINE s == KeepAcceptance(refresh[r].seen, refresh[r].result)
      <4>1. CheckedWrite(r, s) /\ refresh[r].pc # "idle"
        BY <3>4 DEF RefreshStore
      <4>2. s \in Statuses
        BY <3>1 DEF KeepAcceptance, Refresh
      <4>3. refresh[r].seen = "ACCEPTED" => s \in {"ACCEPTED", "DELIVERED", "FAILED"}
        <5>1. refresh[r].result \in Statuses /\ refresh[r].result # "SENDING"
          BY <3>1, <3>4 DEF Refresh, RefreshInv, RefreshStore
        <5> QED BY <5>1 DEF KeepAcceptance, Statuses
      <4> HIDE DEF s
      <4> QED BY <3>2, <4>1, <4>2, <4>3
    <3> QED BY <2>1, <2>3, <3>3, <3>4 DEF RefreshStep, RefreshRead, RefreshLookup
  <2>4. ASSUME NEW k \in Keys, Age(k) PROVE Keeps
    <3>1. row' = [row EXCEPT ![k] = [row[k] EXCEPT !.old = TRUE]] /\ row[k] \in Row
          /\ row \in [Keys -> Row \cup {None}]
      BY <2>4 DEF Age, Exists, IInv, TypeOK
    <3> QED BY <3>1 DEF Row
  <2> QED
    BY <2>1, <2>2, <2>3, <2>4 DEF Next, Start, Crash, RefreshCrash, Settle, Change
<1> QED BY <1>1, Invariant, PTL DEF Spec, NoRegression

--------------------------------------------------------------------------------
\* What the abstract specification sees of a row.
ClaimOf(k) == IF Exists(k) THEN <<row[k].notice, row[k].event>> ELSE None
Held == {k \in Keys : Exists(k) /\ row[k].claimed}
Submitted == {k \in Keys : submissions[k] > 0}

AbstractStep == Claims!NNext \/ UNCHANGED Claims!nvars

\* Nothing the abstract specification sees has changed.
LEMMA Stutter ==
    ASSUME \A k \in Keys : ClaimOf(k)' = ClaimOf(k), Held' = Held, UNCHANGED <<submissions, provider>>
    PROVE  AbstractStep
BY DEF AbstractStep, Claims!nvars, ClaimOf, Held

\* A write to a row keeps what it claims; if it clears the claim, the claim is given
\* up, which is only right for a message that was not sent or is known to have failed.
LEMMA WriteMaps ==
    ASSUME IInv, NEW k \in Keys, Exists(k), NEW w \in Row, row' = [row EXCEPT ![k] = w],
           w.notice = row[k].notice, w.event = row[k].event, w.claimed => row[k].claimed,
           ~w.claimed => submissions[k] = 0 \/ provider[k] = "failed",
           UNCHANGED <<submissions, provider>>
    PROVE  AbstractStep
<1>1. /\ w # None
      /\ \A j \in Keys : row'[j] = IF j = k THEN w ELSE row[j]
  BY NoneIsNew DEF IInv, TypeOK
<1>2. \A j \in Keys : ClaimOf(j)' = ClaimOf(j)
  BY <1>1 DEF ClaimOf, Exists
<1>3. CASE w.claimed = row[k].claimed
  <2>1. Held' = Held
    BY <1>1, <1>3 DEF Held, Exists
  <2> QED BY <1>2, <2>1, Stutter
<1>4. CASE ~w.claimed /\ row[k].claimed
  <2>1. Held' = Held \ {k} /\ k \in Held
    BY <1>1, <1>4 DEF Held, Exists
  <2>2. k \notin Submitted \/ provider[k] = "failed"
    BY <1>4 DEF Submitted
  <2>3. Claims!GiveUp(k)
    BY <1>2, <2>1, <2>2 DEF Claims!GiveUp, ClaimOf, Held, Submitted
  <2> QED BY <2>3 DEF AbstractStep, Claims!NNext
<1> QED
  <2>1. w.claimed \in BOOLEAN /\ row[k].claimed \in BOOLEAN
    BY DEF IInv, TypeOK, Row, Exists
  <2> QED BY <2>1, <1>3, <1>4

\* The claim transaction takes an event that no row holds.
LEMMA ClaimMaps == ASSUME IInv, NEW c \in Calls, Claim(c) PROVE AbstractStep
<1>0. PICK k \in Keys, n \in Notices, x \in 0..MaxEvent :
        k = call[c].key /\ n = call[c].notice /\ x = call[c].event
  BY DEF IInv, TypeOK, CallInv, Call, Claim
<1> DEFINE e == <<n, x>>
           w == [notice |-> n, event |-> x,
                 detail |-> call[c].detail, status |-> "SENDING", claimed |-> TRUE,
                 message |-> FALSE, old |-> FALSE]
<1>1. call[c].detail \in Details
  BY DEF IInv, CallInv, Claim
<1>2. /\ row' = [row EXCEPT ![k] = w] /\ ~Exists(k) /\ UNCHANGED <<submissions, provider>>
      /\ ~Duplicate(n, x)
  BY <1>0 DEF Claim
<1>3. /\ w \in Row /\ w.claimed /\ w.notice = n /\ w.event = x
  BY <1>1 DEF Row, Statuses
<1> HIDE DEF w
<1>4. /\ w # None
      /\ \A j \in Keys : row'[j] = IF j = k THEN w ELSE row[j]
  BY <1>1, <1>2, <1>3, NoneIsNew DEF IInv, TypeOK
<1>5. /\ ClaimOf(k) = None
      /\ \A j \in Keys : ClaimOf(j)' = IF j = k THEN e ELSE ClaimOf(j)
  BY <1>2, <1>3, <1>4 DEF ClaimOf, Exists
<1>6. Held' = Held \cup {k}
  BY <1>1, <1>3, <1>4 DEF Held, Exists
<1>7. \A j \in Held : ClaimOf(j) # e
  BY <1>2 DEF Held, ClaimOf, Duplicate, Exists
<1>8. Claims!TakeClaim(k, e)
  BY <1>1, <1>2, <1>5, <1>6, <1>7 DEF Claims!TakeClaim, ClaimOf, Held
<1>9. e \in Notices \X (0..MaxEvent)
  BY <1>1
<1> QED BY <1>1, <1>8, <1>9 DEF AbstractStep, Claims!NNext

\* The request is the one submission under its claim.
LEMMA SendMaps == ASSUME IInv, NEW c \in Calls, Send(c) PROVE AbstractStep
<1>0. PICK k \in Keys : k = call[c].key
  BY DEF IInv, CallInv, Send
<1>1. /\ k \in Keys /\ Exists(k) /\ row[k].claimed /\ submissions[k] = 0
      /\ submissions \in [Keys -> Nat]
  BY <1>0 DEF IInv, TypeOK, CallInv, Working, Unsent, Send
<1>2. PICK outcome \in Outcomes : provider' = [provider EXCEPT ![k] = outcome]
  BY <1>0 DEF Send
<1>3. row' = row /\ submissions' = [submissions EXCEPT ![k] = @ + 1]
  BY <1>0 DEF Send
<1>4. Submitted' = Submitted \cup {k} /\ k \notin Submitted
  BY <1>1, <1>3 DEF Submitted
<1>5. k \in Held /\ Held' = Held /\ \A j \in Keys : ClaimOf(j)' = ClaimOf(j)
  BY <1>1, <1>3 DEF Held, ClaimOf, Exists
<1>6. outcome \in Claims!Fates
  BY <1>2 DEF Outcomes, Claims!Fates
<1>7. Claims!Submit(k)
  BY <1>2, <1>4, <1>5, <1>6 DEF Claims!Submit, ClaimOf, Held, Submitted
<1> QED BY <1>1, <1>7 DEF AbstractStep, Claims!NNext

\* The end of an execution: a FAILED is only recorded if nothing was sent or the
\* provider refused it.
LEMMA EndMaps ==
    ASSUME IInv, NEW c \in Calls, RecordLocalFailure(c) \/ Record(c) PROVE AbstractStep
<1>0. PICK k \in Keys : k = call[c].key
  BY DEF IInv, CallInv, RecordLocalFailure, Record
<1>1. /\ Exists(k) /\ row[k] \in Row /\ row[k].claimed
      /\ CallInv(c) /\ call[c] \in Call
  BY <1>0 DEF IInv, TypeOK, CallInv, Working, Exists, RecordLocalFailure, Record
<1>2. CASE RecordLocalFailure(c)
  <2> DEFINE w == [row[k] EXCEPT !.status = "FAILED", !.claimed = ClaimAfter("FAILED", @)]
  <2>1. row' = [row EXCEPT ![k] = w] /\ UNCHANGED <<submissions, provider>>
    BY <1>0, <1>2 DEF RecordLocalFailure
  <2>2. w \in Row /\ w.notice = row[k].notice /\ w.event = row[k].event
    BY <1>1 DEF Row, Statuses, ClaimAfter
  <2>3. submissions[k] = 0
    BY <1>0, <1>1, <1>2 DEF CallInv, Unsent, RecordLocalFailure
  <2> HIDE DEF w
  <2> QED BY <1>1, <2>1, <2>2, <2>3, WriteMaps
<1>3. CASE Record(c)
  <2> DEFINE w == [row[k] EXCEPT !.status = call[c].status, !.message = call[c].message,
                                 !.claimed = ClaimAfter(call[c].status, @)]
  <2>1. row' = [row EXCEPT ![k] = w] /\ UNCHANGED <<submissions, provider>>
    BY <1>0, <1>3 DEF Record
  <2>2. /\ w \in Row /\ w.notice = row[k].notice /\ w.event = row[k].event
        /\ ~w.claimed => call[c].status = "FAILED"
    BY <1>1 DEF Row, Call, ClaimAfter
  <2>3. call[c].status = "FAILED" => provider[k] = "failed"
    BY <1>0, <1>1, <1>3 DEF CallInv, Record
  <2> HIDE DEF w
  <2> QED BY <1>1, <2>1, <2>2, <2>3, WriteMaps
<1> QED BY <1>2, <1>3

\* A refresh only clears the claim of a message that the provider says failed.
LEMMA RefreshMaps ==
    ASSUME IInv, NEW r \in Refreshers, RefreshStep(r) PROVE AbstractStep
<1>1. CASE UNCHANGED <<row, submissions, provider>>
  BY <1>1, Stutter DEF ClaimOf, Held, Exists
<1>2. ASSUME NEW s \in Statuses, refresh[r].pc # "idle", refresh[r].unchanged,
             CheckedWrite(r, s), UNCHANGED <<submissions, provider>>,
             s = "FAILED" => provider[refresh[r].key] = "failed"
      PROVE  AbstractStep
  <2>0. PICK k \in Keys : k = refresh[r].key
    BY <1>2 DEF IInv, RefreshInv
  <2> DEFINE w == [row[k] EXCEPT !.status = s, !.claimed = ClaimAfter(s, @)]
  <2>1. row' = [row EXCEPT ![k] = w]
    BY <1>2, <2>0 DEF CheckedWrite
  <2>2. Exists(k) /\ row[k] \in Row /\ RefreshInv(r) /\ RowInv(k)
    BY <1>2, <2>0 DEF IInv, TypeOK, RefreshInv, Exists
  <2>3. /\ w \in Row /\ w.notice = row[k].notice /\ w.event = row[k].event
        /\ w.claimed <=> row[k].claimed /\ s # "FAILED"
    BY <2>2 DEF Row, ClaimAfter
  <2>4. row[k].claimed
    BY <1>2, <2>0, <2>2 DEF RefreshInv, RowInv
  <2> HIDE DEF w
  <2> QED BY <1>2, <2>0, <2>1, <2>2, <2>3, <2>4, WriteMaps
<1>3. refresh[r] \in Refresh /\ RefreshInv(r)
  BY DEF IInv, TypeOK
<1>4. CASE RefreshExpire(r)
  BY <1>1, <1>2, <1>4 DEF RefreshExpire, CheckedWrite, Statuses
<1>5. CASE RefreshStore(r)
  <2> DEFINE s == KeepAcceptance(refresh[r].seen, refresh[r].result)
  <2>1. s \in Statuses /\ (s = "FAILED" => provider[refresh[r].key] = "failed")
    BY <1>3, <1>5 DEF KeepAcceptance, Refresh, RefreshInv, RefreshStore
  <2>2. CheckedWrite(r, s) /\ refresh[r].pc # "idle" /\ UNCHANGED <<submissions, provider>>
    BY <1>5 DEF RefreshStore
  <2> HIDE DEF s
  <2> QED BY <1>1, <1>2, <2>1, <2>2 DEF CheckedWrite
<1> QED BY <1>1, <1>4, <1>5 DEF RefreshStep, RefreshRead, RefreshLookup

\* The provider decides.
LEMMA SettleMaps == ASSUME IInv, NEW k \in Keys, Settle(k) PROVE AbstractStep
<1>1. /\ provider[k] = "pending"
      /\ \E f \in {"delivered", "failed"} : provider' = [provider EXCEPT ![k] = f]
      /\ UNCHANGED <<row, submissions>>
  BY DEF Settle
<1>2. Claims!Decide(k)
  BY <1>1 DEF Claims!Decide, Exists
<1> QED BY <1>2 DEF AbstractStep, Claims!NNext

\* Time passes.
LEMMA AgeMaps == ASSUME IInv, NEW k \in Keys, Age(k) PROVE AbstractStep
<1> DEFINE w == [row[k] EXCEPT !.old = TRUE]
<1>1. row' = [row EXCEPT ![k] = w] /\ Exists(k) /\ UNCHANGED <<submissions, provider>>
  BY DEF Age
<1>2. row[k] \in Row /\ RowInv(k) /\ TruthfulRows
  BY <1>1 DEF IInv, TypeOK, Exists
<1>3. w \in Row /\ w.notice = row[k].notice /\ w.event = row[k].event /\ w.claimed = row[k].claimed
  BY <1>2 DEF Row
<1>5. CASE row[k].claimed
  <2> HIDE DEF w
  <2> QED BY <1>1, <1>3, <1>5, WriteMaps
<1>6. CASE ~row[k].claimed
  <2> HIDE DEF w
  <2>1. /\ w # None
        /\ \A j \in Keys : row'[j] = IF j = k THEN w ELSE row[j]
    BY <1>1, <1>3, NoneIsNew DEF IInv, TypeOK
  <2>2. (\A j \in Keys : ClaimOf(j)' = ClaimOf(j)) /\ Held' = Held
    BY <1>1, <1>3, <2>1 DEF ClaimOf, Held, Exists
  <2> QED BY <1>1, <2>2, Stutter
<1> QED BY <1>5, <1>6

\* Every step of the service is a step, or none, of the abstract specification.
LEMMA NextMaps == IInv /\ [Next]_vars => [Claims!NNext]_(Claims!nvars)
<1> SUFFICES ASSUME IInv, [Next]_vars PROVE AbstractStep
    BY DEF AbstractStep
<1>1. CASE UNCHANGED <<row, submissions, provider>>
  BY <1>1, Stutter DEF ClaimOf, Held, Exists
<1>2. ASSUME NEW c \in Calls, Start(c) \/ Dispatch(c) \/ Crash(c) PROVE AbstractStep
  BY <1>1, <1>2, ClaimMaps, SendMaps, EndMaps
     DEF Start, Dispatch, Crash, Lookup, ClaimDuplicate, ClaimKeyTaken, ClaimRefused, Preflight,
         PreflightRefused
<1>3. ASSUME NEW r \in Refreshers, RefreshStep(r) \/ RefreshCrash(r) PROVE AbstractStep
  BY <1>1, <1>3, RefreshMaps DEF RefreshCrash
<1>4. ASSUME NEW k \in Keys, Settle(k) \/ Age(k) PROVE AbstractStep
  BY <1>4, SettleMaps, AgeMaps
<1>5. ASSUME NEW n \in Notices, Change(n) PROVE AbstractStep
  BY <1>1, <1>5 DEF Change
<1> QED BY <1>1, <1>2, <1>3, <1>4, <1>5 DEF Next, vars

\* The service implements NoticeClaims, however many requests, crashes, lost answers
\* and refreshes interleave: a claim is taken on an event nobody holds, submitted at
\* most once, and only given up for a message that will never arrive.
THEOREM Refinement == Spec => KeepsClaims
<1>1. Init => Claims!NInit
  BY DEF Init, Claims!NInit, Exists
<1> QED BY <1>1, NextMaps, Invariant, PTL DEF Spec, KeepsClaims, Claims!NoticeSpec

--------------------------------------------------------------------------------
\* What a row claims never changes, so an execution that has made its claim still works on
\* what was confirmed.
Claimed(k, e, d) == Exists(k) /\ row[k].event = e /\ row[k].detail = d
ClaimsAreConfirmed ==
    \A c \in Calls : call[c].pc = "preflight" =>
        call[c].key \in Keys /\ Claimed(call[c].key, call[c].event, call[c].detail)

\* A write of status, claim, message or age.
LEMMA WriteKeeps ==
    ASSUME IInv, NEW j \in Keys, NEW e, NEW d, Claimed(j, e, d), NEW k \in Keys, Exists(k),
           NEW x, row' = [row EXCEPT ![k] = x], x.event = row[k].event, x.detail = row[k].detail,
           x # None
    PROVE  Claimed(j, e, d)'
BY DEF Claimed, Exists, IInv, TypeOK

LEMMA ClaimsKept ==
    ASSUME IInv, [Next]_vars, NEW j \in Keys, NEW e, NEW d, Claimed(j, e, d)
    PROVE  Claimed(j, e, d)'
<1>1. ASSUME UNCHANGED row PROVE Claimed(j, e, d)'
  BY <1>1 DEF Claimed, Exists
<1>2. \A k \in Keys : Exists(k) => row[k] \in Row
  BY DEF IInv, TypeOK, Exists
<1>3. \A x \in Row : x # None
  BY NoneIsNew
<1>4. ASSUME NEW c \in Calls, Dispatch(c) PROVE Claimed(j, e, d)'
  <2> DEFINE k == call[c].key
  <2>1. CallInv(c) /\ row \in [Keys -> Row \cup {None}] /\ call[c] \in Call
    BY DEF IInv, TypeOK
  <2>2. CASE Claim(c)
    <3>1. k # j
      BY <2>2 DEF Claim, Claimed
    <3>2. row'[j] = row[j]
      BY <2>1, <2>2, <3>1 DEF Claim
    <3> QED BY <3>2 DEF Claimed, Exists
  <2>3. ASSUME NEW status \in Statuses, NEW message \in BOOLEAN, k \in Keys, Exists(k),
               row' = [row EXCEPT ![k] = [row[k] EXCEPT !.status = status, !.message = message,
                                                        !.claimed = ClaimAfter(status, @)]]
        PROVE  Claimed(j, e, d)'
    <3> DEFINE w == [row[k] EXCEPT !.status = status, !.message = message,
                                   !.claimed = ClaimAfter(status, @)]
    <3>1. row[k].claimed \in BOOLEAN
      BY <1>2, <2>3 DEF Row
    <3>2. ClaimAfter(status, row[k].claimed) \in BOOLEAN
      BY <3>1 DEF ClaimAfter
    <3>3. w.event = row[k].event /\ w.detail = row[k].detail /\ w \in Row
      BY <1>2, <2>3, <3>2 DEF Row
    <3>4. row' = [row EXCEPT ![k] = w]
      BY <2>3
    <3> HIDE DEF w
    <3> QED BY <1>3, <2>3, <3>3, <3>4, WriteKeeps
  <2>4. CASE Record(c)
    <3>1. k \in Keys /\ Exists(k) /\ call[c].status \in Statuses /\ call[c].message \in BOOLEAN
      BY <2>1, <2>4 DEF Record, CallInv, Working, Call
    <3> QED BY <2>3, <2>4, <3>1 DEF Record
  <2>5. CASE RecordLocalFailure(c)
    <3> DEFINE w == [row[k] EXCEPT !.status = "FAILED", !.claimed = ClaimAfter("FAILED", @)]
    <3>1. k \in Keys /\ Exists(k) /\ row[k] \in Row
      BY <1>2, <2>1, <2>5 DEF RecordLocalFailure, CallInv, Working
    <3>2. w.event = row[k].event /\ w.detail = row[k].detail /\ w \in Row
      BY <3>1 DEF Row, Statuses, ClaimAfter
    <3>3. row' = [row EXCEPT ![k] = w]
      BY <2>5 DEF RecordLocalFailure
    <3> HIDE DEF w
    <3> QED BY <1>3, <3>1, <3>2, <3>3, WriteKeeps
  <2> QED
    BY <1>1, <1>4, <2>2, <2>4, <2>5
    DEF Dispatch, Lookup, ClaimDuplicate, ClaimKeyTaken, ClaimRefused, Preflight, PreflightRefused, Send
<1>5. ASSUME NEW r \in Refreshers, RefreshStep(r) PROVE Claimed(j, e, d)'
  <2> DEFINE k == refresh[r].key
  <2>1. ASSUME NEW s \in Statuses, CheckedWrite(r, s), refresh[r].pc # "idle" PROVE Claimed(j, e, d)'
    <3>1. CASE ~refresh[r].unchanged
      BY <1>1, <2>1, <3>1 DEF CheckedWrite
    <3>2. CASE refresh[r].unchanged
      <4> DEFINE w == [row[k] EXCEPT !.status = s, !.claimed = ClaimAfter(s, @)]
      <4>1. row' = [row EXCEPT ![k] = w]
        BY <2>1, <3>2 DEF CheckedWrite
      <4>2. k \in Keys /\ Exists(k)
        BY <2>1, <3>2 DEF IInv, RefreshInv
      <4>3. w.event = row[k].event /\ w.detail = row[k].detail /\ w \in Row
        <5>1. row[k].claimed \in BOOLEAN
          BY <1>2, <4>2 DEF Row
        <5>2. ClaimAfter(s, row[k].claimed) \in BOOLEAN
          BY <5>1 DEF ClaimAfter
        <5> QED BY <1>2, <2>1, <4>2, <5>2 DEF Row
      <4> HIDE DEF w
      <4> QED BY <1>3, <4>1, <4>2, <4>3, WriteKeeps
    <3> QED BY <3>1, <3>2
  <2>2. CASE RefreshExpire(r)
    BY <2>1, <2>2 DEF RefreshExpire, Statuses
  <2>3. CASE RefreshStore(r)
    <3>1. KeepAcceptance(refresh[r].seen, refresh[r].result) \in Statuses
      BY DEF KeepAcceptance, IInv, TypeOK, Refresh
    <3> QED BY <2>1, <2>3, <3>1 DEF RefreshStore
  <2> QED BY <1>1, <1>5, <2>2, <2>3 DEF RefreshStep, RefreshRead, RefreshLookup
<1>6. ASSUME NEW k \in Keys, Age(k) PROVE Claimed(j, e, d)'
  <2> DEFINE w == [row[k] EXCEPT !.old = TRUE]
  <2>1. Exists(k) /\ row' = [row EXCEPT ![k] = w]
    BY <1>6 DEF Age
  <2>2. w.event = row[k].event /\ w.detail = row[k].detail /\ w \in Row
    BY <1>2, <2>1 DEF Row
  <2> HIDE DEF w
  <2> QED BY <1>3, <2>1, <2>2, WriteKeeps
<1>7. CASE UNCHANGED vars
  BY <1>1, <1>7 DEF vars
<1> QED
  BY <1>1, <1>4, <1>5, <1>6, <1>7 DEF Next, Start, Crash, RefreshCrash, Settle, Change

LEMMA ConfirmedStep ==
    ASSUME IInv, ClaimsAreConfirmed, [Next]_vars PROVE ClaimsAreConfirmed'
<1> SUFFICES ASSUME NEW c \in Calls, call'[c].pc = "preflight"
             PROVE  call'[c].key \in Keys /\ Claimed(call[c].key, call[c].event, call[c].detail)'
  BY DEF ClaimsAreConfirmed
<1>1. call \in [Calls -> Call] /\ call[c] \in Call /\ NoCall.pc = "idle"
  BY DEF IInv, TypeOK, NoCall
<1>2. CASE call'[c] = call[c]
  <2>1. call[c].key \in Keys /\ Claimed(call[c].key, call[c].event, call[c].detail)
    BY <1>2 DEF ClaimsAreConfirmed
  <2>2. PICK e, d : e = call[c].event /\ d = call[c].detail
    OBVIOUS
  <2>3. Claimed(call[c].key, e, d)
    BY <2>1, <2>2
  <2>4. PICK j \in Keys : j = call[c].key
    BY <2>1
  <2>5. Claimed(j, e, d)'
    BY <2>3, <2>4, ClaimsKept
  <2> QED BY <1>2, <2>1, <2>2, <2>4, <2>5 DEF Claimed, Exists
<1>3. CASE Claim(c)
  <2> DEFINE k == call[c].key
             x == [notice |-> call[c].notice, event |-> call[c].event, detail |-> call[c].detail,
                   status |-> "SENDING", claimed |-> TRUE, message |-> FALSE, old |-> FALSE]
  <2>1. k \in Keys /\ row \in [Keys -> Row \cup {None}] /\ CallInv(c)
    BY <1>3 DEF IInv, TypeOK, CallInv, Claim
  <2>2. row' = [row EXCEPT ![k] = x] /\ call' = [call EXCEPT ![c].pc = "preflight"]
    BY <1>3 DEF Claim, Goto
  <2>3. row'[k] = x /\ row'[k] \in Row \cup {None}
    <3>1. IInv'
      BY NextStep
    <3> QED BY <2>1, <2>2, <3>1 DEF IInv, TypeOK
  <2>5. call'[c].key = k /\ call'[c].event = call[c].event /\ call'[c].detail = call[c].detail
    BY <1>1, <2>2 DEF Call
  <2>6. x.event = call[c].event /\ x.detail = call[c].detail
    OBVIOUS
  <2>7. CallInv(c)'
    BY NextStep DEF IInv
  <2>8. row'[k] # None
    BY <2>5, <2>7 DEF CallInv, Working, Exists
  <2> HIDE DEF x
  <2> QED BY <2>1, <2>3, <2>5, <2>6, <2>8 DEF Claimed, Exists
<1>4. ASSUME NEW b \in Calls, Start(b) \/ Dispatch(b) \/ Crash(b), ~Claim(b) PROVE call'[c] = call[c]
  <2>1. PICK x : call' = [call EXCEPT ![b] = x] /\ x.pc # "preflight"
    <3>1. ASSUME NEW l \in {"claim", "fail", "send"}, Goto(b, l)
          PROVE  \E x : call' = [call EXCEPT ![b] = x] /\ x.pc # "preflight"
      <4>1. call' = [call EXCEPT ![b] = [call[b] EXCEPT !.pc = l]]
        BY <3>1 DEF Goto
      <4>2. [call[b] EXCEPT !.pc = l].pc = l
        BY <1>1 DEF IInv, TypeOK, Call
      <4> QED BY <4>1, <4>2
    <3>2. ASSUME NEW a, Answer(b, a)
          PROVE  \E x : call' = [call EXCEPT ![b] = x] /\ x.pc # "preflight"
      <4>1. call' = [call EXCEPT ![b] = [NoCall EXCEPT !.answer = a]]
        BY <3>2 DEF Answer
      <4>2. [NoCall EXCEPT !.answer = a].pc = "idle"
        BY DEF NoCall
      <4> QED BY <4>1, <4>2
    <3>3. CASE Start(b)
      <4>1. PICK k \in Keys, n \in Notices :
              call' = [call EXCEPT ![b] = [NoCall EXCEPT !.pc = "lookup", !.key = k, !.notice = n,
                         !.event = context[n].event, !.detail = context[n].detail]]
        BY <3>3 DEF Start
      <4>2. [NoCall EXCEPT !.pc = "lookup", !.key = k, !.notice = n, !.event = context[n].event,
                           !.detail = context[n].detail].pc = "lookup"
        BY DEF NoCall
      <4> QED BY <4>1, <4>2
    <3>4. CASE Crash(b)
      <4>1. call' = [call EXCEPT ![b] = NoCall]
        BY <3>4 DEF Crash
      <4> QED BY <1>1, <4>1
    <3>5. CASE Send(b)
      <4>1. PICK report :
              call' = [call EXCEPT ![b].pc = "record", ![b].status = report.status,
                                   ![b].message = report.message]
        BY <3>5 DEF Send
      <4> DEFINE s == report.status
                 m == report.message
      <4>2. [call[b] EXCEPT !.pc = "record", !.status = s, !.message = m].pc = "record"
        BY DEF IInv, TypeOK, Call
      <4>3. call' = [call EXCEPT ![b] = [call[b] EXCEPT !.pc = "record", !.status = s, !.message = m]]
        BY <4>1
      <4> HIDE DEF s, m
      <4> QED BY <4>2, <4>3
    <3> QED
      BY <1>4, <3>1, <3>2, <3>3, <3>4, <3>5
      DEF Dispatch, Lookup, ClaimDuplicate, ClaimKeyTaken, ClaimRefused, ExistingResult, Preflight,
          PreflightRefused, RecordLocalFailure, Record
  <2> QED BY <1>1, <2>1
<1>5. ASSUME NEW b \in Calls, Claim(b), b # c PROVE call'[c] = call[c]
  BY <1>1, <1>5 DEF Claim, Goto
<1> QED
  BY <1>2, <1>3, <1>4, <1>5
  DEF Next, vars, Dispatch, RefreshStep, RefreshRead, RefreshExpire, RefreshLookup, RefreshStore, RefreshCrash,
      Settle, Age, Change

\* A request only leaves after a check, in the step before, that what the row claims is still
\* what the notice is about (preflight transaction of dispatch()).
THEOREM SentAsConfirmed == Spec => CheckedBeforeSend
<1> DEFINE Checked == \A c \in Calls : call[c].pc = "preflight" /\ call'[c].pc = "send" =>
             LET x == row[call[c].key]
             IN  context[call[c].notice] = [event |-> x.event, detail |-> x.detail, ready |-> TRUE]
<1>1. Init => ClaimsAreConfirmed
  BY DEF Init, ClaimsAreConfirmed, NoCall
<1>2. IInv /\ ClaimsAreConfirmed /\ [Next]_vars => [Checked]_vars
  <2> SUFFICES ASSUME IInv, ClaimsAreConfirmed, Next, NEW c \in Calls,
                      call[c].pc = "preflight", call'[c].pc = "send"
               PROVE  context[call[c].notice] = [event |-> row[call[c].key].event,
                                                 detail |-> row[call[c].key].detail, ready |-> TRUE]
    BY DEF vars
  <2>1. call \in [Calls -> Call] /\ call[c] \in Call /\ context \in [Notices -> Context]
    BY DEF IInv, TypeOK
  <2>2. StillPreviewed(c)
    <3>1. ASSUME NEW b \in Calls, Start(b) \/ Dispatch(b) \/ Crash(b) PROVE Preflight(b) /\ b = c
      <4>1. b = c
        BY <2>1, <3>1
        DEF Start, Dispatch, Crash, Lookup, Claim, ClaimDuplicate, ClaimKeyTaken, ClaimRefused, ExistingResult,
            Preflight, PreflightRefused, RecordLocalFailure, Send, Record, Goto, Answer
      <4>2. Preflight(c) \/ PreflightRefused(c) \/ Crash(c)
        BY <3>1, <4>1
        DEF Start, Dispatch, Lookup, Claim, ClaimDuplicate, ClaimKeyTaken, ClaimRefused,
            RecordLocalFailure, Send, Record
      <4>3. ASSUME PreflightRefused(c) PROVE FALSE
        BY <2>1, <4>3 DEF PreflightRefused, Goto, Call
      <4>4. ASSUME Crash(c) PROVE FALSE
        BY <2>1, <4>4 DEF Crash, NoCall
      <4> QED BY <4>1, <4>2, <4>3, <4>4
    <3>2. CASE UNCHANGED call
      BY <3>2
    <3> QED
      BY <3>1, <3>2
      DEF Next, Preflight, RefreshStep, RefreshRead, RefreshExpire, RefreshLookup, RefreshStore, RefreshCrash,
          Settle, Age, Change
  <2>3. call[c].notice \in Notices
    BY <2>1 DEF IInv, CallInv
  <2>4. context[call[c].notice] \in Context
    BY <2>1, <2>3
  <2>5. Claimed(call[c].key, call[c].event, call[c].detail)
    BY DEF ClaimsAreConfirmed
  <2> QED BY <2>2, <2>4, <2>5 DEF StillPreviewed, Claimed, Context
<1>3. [][Checked]_vars => CheckedBeforeSend
  BY DEF CheckedBeforeSend
<1>4. IInv /\ ClaimsAreConfirmed /\ [Next]_vars => ClaimsAreConfirmed'
  BY ConfirmedStep
<1> HIDE DEF Checked
<1> QED BY Invariant, <1>1, <1>2, <1>3, <1>4, PTL DEF Spec

================================================================================
