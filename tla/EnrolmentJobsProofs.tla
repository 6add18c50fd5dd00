------------------------- MODULE EnrolmentJobsProofs -------------------------
(***************************************************************************)
(* Theorems about EnrolmentJobs, for any number of jobs, descriptors and   *)
(* unasked notifications, and about the session of its Codex ceremonies:   *)
(* jobs run one at a time, a line lands where it was typed, a session      *)
(* mislays nothing, and the service implements JobService.                 *)
(***************************************************************************)
EXTENDS EnrolmentJobs, FiniteSetTheorems, SequenceTheorems, TLAPS

-----------------------------------------------------------------------------
(* The inductive invariant of a session *)

\* How many numbers a call finds drawn by those before it.
Drawn(c) ==
  IF c \in {"start login", "read account"} THEN 1
  ELSE IF c \in {"present", "wait", "cancel login", "read limits"} THEN 2
  ELSE 0
Sent == blocked = TRUE /\ call \in Requests
Numbered ==
  /\ Sent => nextId = Drawn(call) + 1
  /\ ~ Sent /\ call # "close" => nextId = Drawn(call)

\* A number in use was drawn before.
InUse ==
  /\ unanswered \subseteq 1 .. nextId /\ responses \subseteq 1 .. nextId
  /\ \A i \in DOMAIN queue : queue[i].id \in 0 .. nextId
Blocking == blocked = TRUE => call \in Requests \cup {"wait"}

SessionInv == SessionTypeOK /\ Numbered /\ InUse /\ Blocking /\ NothingMislaid

\* What the jobs do to the session: a ceremony begins, presents its code and ends.
CeremonyBegins ==
  /\ call = "off" /\ call' = "launch"
  /\ UNCHANGED <<wireVars, responses, notes, nextId, blocked, verifying, failed>>
CeremonyPresents ==
  /\ call = "present" /\ Return
  /\ UNCHANGED <<wireVars, responses, notes, nextId, verifying>>
CeremonyEnds ==
  /\ call = "done" /\ call' = "off" /\ failed' = FALSE /\ verifying' = FALSE
  /\ UNCHANGED <<wireVars, responses, notes, nextId, blocked>>

-----------------------------------------------------------------------------
(* The calls of a ceremony *)

Calls == Requests \cup {"off", "launch", "present", "wait", "close", "done"}

LEMMA CloseIsCall == "close" \in Calls
  BY DEF Calls

\* Which call follows which; only a first child's account is not read.
LEMMA AfterCall ==
  /\ After("launch") = "initialize"
  /\ After("initialize") \in {"read account", "start login"}
  /\ After("start login") = "present" /\ After("present") = "wait"
  /\ After("read account") = "read limits"
  /\ After("read limits") = "close" /\ After("wait") = "close"
  /\ After("cancel login") = "close"
  BY DEF After

-----------------------------------------------------------------------------
(* Every step of a session keeps its invariant *)

\* Something more is said: a message whose number was drawn.
LEMMA SayKeeps ==
  ASSUME SessionInv, NEW m \in Messages, m.id \in 0 .. nextId,
         Say(m), unanswered' \subseteq unanswered, UNCHANGED <<callVars, verifying, failed>>,
         server' \in {"none", "up", "dead"}, login' \in {"none", "open", "announced"},
         chatter' \in 0 .. Chatter
  PROVE  SessionInv'
<1>1. queue \in Seq(Messages)
  BY DEF SessionInv, SessionTypeOK
<1>2. queue' \in Seq(Messages)
  BY <1>1, AppendProperties DEF Say
<1>3. \A i \in DOMAIN queue' : queue'[i].id \in 0 .. nextId
  BY <1>1, AppendProperties DEF Say, SessionInv, InUse
<1>4. SessionTypeOK'
  BY <1>2 DEF SessionInv, SessionTypeOK, callVars
<1>5. Numbered' /\ Blocking' /\ NothingMislaid'
  BY DEF SessionInv, Numbered, Sent, Blocking, NothingMislaid, callVars
<1>6. InUse'
  BY <1>3 DEF SessionInv, InUse, callVars
<1> QED BY <1>4, <1>5, <1>6 DEF SessionInv

\* What the child can say.
LEMMA Sayings ==
  /\ \A n \in 1 .. 3, body \in {"result", "refusal"} :
       Response(n, body) \in Messages /\ Response(n, body).id = n
  /\ \A body \in Bodies : Notification(body) \in Messages /\ Notification(body).id = 0
  /\ Exited \in Messages /\ Exited.id = 0
<1>1. ASSUME NEW n \in 1 .. 3, NEW body \in {"result", "refusal"}
      PROVE  Response(n, body) \in Messages /\ Response(n, body).id = n
  BY DEF Response, Messages
<1>2. ASSUME NEW body \in Bodies \cup {"end of file"}
      PROVE  [id |-> 0, body |-> body] \in Messages
  <2>1. 0 \in {0}
    OBVIOUS
  <2>2. [id |-> 0, body |-> body] \in [id : {0}, body : Bodies \cup {"end of file"}]
    BY <1>2, <2>1, Zenon
  <2> QED BY <2>2 DEF Messages
<1> QED BY <1>1, <1>2 DEF Notification, Exited

\* A message without a number is the end or a notification.
LEMMA Heard ==
  ASSUME NEW m \in Messages, m.id = 0, m # Exited
  PROVE  m.body \in Bodies /\ m = Notification(m.body)
<1>1. m \in [id : {0}, body : Bodies \cup {"end of file"}]
  <2>1. m \notin [id : 1 .. 3, body : {"result", "refusal"}]
    OBVIOUS
  <2> QED BY <2>1 DEF Messages
<1>2. m = [id |-> 0, body |-> m.body]
  BY <1>1
<1> QED BY <1>1, <1>2 DEF Notification, Exited

LEMMA ServerKeeps ==
  ASSUME SessionInv, ServerStep
  PROVE  SessionInv'
<1>1. nextId \in 0 .. 3 /\ unanswered \subseteq 1 .. 3 /\ \A n \in unanswered : n \in 0 .. nextId
  <2>1. nextId \in 0 .. 3 /\ unanswered \subseteq 1 .. 3
    BY DEF SessionInv, SessionTypeOK
  <2>2. unanswered \subseteq 1 .. nextId
    BY DEF SessionInv, InUse
  <2> QED BY <2>1, <2>2
<1>2. /\ server \in {"none", "up", "dead"} /\ login \in {"none", "open", "announced"}
      /\ chatter \in 0 .. Chatter
  BY DEF SessionInv, SessionTypeOK
<1>3. 0 \in 0 .. nextId
  BY <1>1
<1>4. ASSUME NEW n \in unanswered, Answer(n)
      PROVE  SessionInv'
  <2>1. PICK body \in {"result", "refusal"} : Say(Response(n, body))
    BY <1>4 DEF Answer
  <2>2. Response(n, body) \in Messages /\ Response(n, body).id \in 0 .. nextId
    BY <1>1, Sayings
  <2> QED BY <1>2, <1>4, <2>1, <2>2, SayKeeps DEF Answer
<1>5. CASE AnnounceLogin
  <2>1. "login completed" \in Bodies
    BY DEF Bodies
  <2>2. login' \in {"none", "open", "announced"}
    BY <1>5 DEF AnnounceLogin
  <2>3. Say(Notification("login completed")) /\ UNCHANGED <<server, unanswered, chatter>>
        /\ UNCHANGED <<callVars, verifying, failed>>
    BY <1>5 DEF AnnounceLogin
  <2>4. /\ Notification("login completed") \in Messages
        /\ Notification("login completed").id \in 0 .. nextId
    BY <1>3, <2>1, Sayings
  <2> QED BY <1>2, <2>2, <2>3, <2>4, SayKeeps
<1>6. CASE SayUnasked
  <2>1. "other" \in Bodies /\ chatter' \in 0 .. Chatter
    BY <1>2, <1>6, ChatterAssumption DEF SayUnasked, Bodies
  <2> QED BY <1>3, <1>2, <1>6, <2>1, Sayings, SayKeeps DEF SayUnasked
<1>7. CASE ServerDies
  BY <1>1, <1>2, <1>3, <1>7, Sayings, SayKeeps DEF ServerDies
<1> QED BY <1>4, <1>5, <1>6, <1>7 DEF ServerStep

\* A call that returns or raises frees the thread; the wire and the buffers hold
\* numbers drawn before, and a call that follows finds as many drawn as it should.
LEMMA CallKeeps ==
  ASSUME SessionInv, SessionTypeOK', InUse', blocked' = FALSE,
         call' # "close" => nextId' = Drawn(call')
  PROVE  SessionInv'
<1>1. nextId' \in Nat
  BY DEF SessionTypeOK
<1>2. Numbered'
  BY <1>1 DEF Numbered, Sent
<1>3. Blocking' /\ NothingMislaid'
  BY DEF Blocking, NothingMislaid
<1> QED BY <1>2, <1>3 DEF SessionInv

\* What the calls that can be under way leave behind when they return.
LEMMA ReturnNumbers ==
  ASSUME SessionInv, Return, nextId' = nextId,
         call \in Requests => blocked = TRUE,
         call \in Requests \cup {"wait", "present"}
  PROVE  call' \in Calls /\ (call' # "close" => nextId' = Drawn(call'))
<1>1. call' = After(call) /\ nextId \in Nat
  BY DEF Return, SessionInv, SessionTypeOK
<1>2. /\ call \in Requests => nextId = Drawn(call) + 1
      /\ call \in {"wait", "present"} => nextId = Drawn(call)
  <2>1. call # "close" /\ Numbered
    BY DEF SessionInv, Requests
  <2>2. Drawn(call) \in Nat
    BY DEF Drawn
  <2>3. CASE call \in Requests
    <3>1. blocked = TRUE /\ call \notin {"wait", "present"}
      BY <2>3 DEF Requests
    <3> QED BY <2>1, <2>2, <2>3, <3>1 DEF Numbered, Sent
  <2>4. CASE call \in {"wait", "present"}
    <3>1. call \notin Requests
      BY <2>4 DEF Requests
    <3> QED BY <2>1, <2>2, <2>4, <3>1 DEF Numbered, Sent
  <2> QED BY <2>3, <2>4
<1>3. CASE call = "initialize"
  <2>1. nextId = 1
    BY <1>2, <1>3 DEF Drawn, Requests
  <2>2. call' \in {"read account", "start login"}
    BY <1>1, <1>3, AfterCall
  <2> QED BY <2>1, <2>2 DEF Drawn, Requests, Calls
<1>4. CASE call \in {"start login", "read account"}
  <2>1. nextId = 2
    <3>1. Drawn(call) = 1 /\ call \in Requests
      BY <1>4 DEF Drawn, Requests
    <3> QED BY <1>2, <3>1
  <2>2. call' \in {"present", "read limits"}
    BY <1>1, <1>4, AfterCall
  <2> QED BY <2>1, <2>2 DEF Drawn, Requests, Calls
<1>5. CASE call \in {"present", "wait", "cancel login", "read limits"}
  BY <1>1, <1>2, <1>5, AfterCall DEF Drawn, Requests, Calls
<1> QED BY <1>3, <1>4, <1>5 DEF Requests

\* The one call after a call that raised draws the next number.
LEMMA WaitNumber ==
  ASSUME SessionInv
  PROVE  call = "wait" => nextId = Drawn("cancel login")
<1> SUFFICES ASSUME call = "wait"
             PROVE  nextId = Drawn("cancel login")
  OBVIOUS
<1>1. Drawn("wait") = 2
  BY DEF Drawn
<1>2. Drawn("cancel login") = 2
  BY DEF Drawn
<1>3. "wait" \notin Requests
  BY DEF Requests
<1>4. nextId = Drawn("wait")
  BY <1>3 DEF SessionInv, Numbered, Sent
<1> QED BY <1>1, <1>2, <1>4

\* The thread's steps.
LEMMA ThreadKeeps ==
  ASSUME SessionInv, SessionStep
  PROVE  SessionInv'
<1>1. /\ nextId \in 0 .. 3 /\ responses \in SUBSET (1 .. 3) /\ unanswered \in SUBSET (1 .. 3)
      /\ queue \in Seq(Messages) /\ notes \in Seq(Bodies) /\ verifying \in BOOLEAN
  BY DEF SessionInv, SessionTypeOK
<1>2. CASE Launch
  <2>1. /\ call = "launch" /\ blocked' = FALSE /\ nextId' = nextId /\ server' \in {server, "up"}
        /\ call' \in {"initialize", "close"} /\ failed' \in {failed, TRUE}
    BY <1>2, AfterCall DEF Launch, Return, Raise
  <2>2. UNCHANGED <<login, unanswered, queue, chatter, responses, notes, nextId, verifying>>
    BY <1>2 DEF Launch
  <2>3. SessionTypeOK' /\ InUse'
    BY <2>1, <2>2 DEF SessionInv, SessionTypeOK, InUse, Requests
  <2>4. nextId = 0
    BY <1>1, <2>1 DEF SessionInv, Numbered, Sent, Drawn, Requests
  <2> QED BY <2>1, <2>3, <2>4, CallKeeps DEF Drawn
<1>3. CASE SendRequest
  <2>1. nextId' \in 1 .. 3 /\ nextId' = nextId + 1 /\ nextId = Drawn(call)
    <3>1. Drawn(call) \in 0 .. 2
      BY DEF Drawn
    <3>2. nextId = Drawn(call)
      <4>1. call # "close" /\ ~ (blocked = TRUE)
        BY <1>3 DEF SendRequest, Requests
      <4>2. nextId = Drawn(call)
        BY <4>1 DEF SessionInv, Numbered, Sent
      <4> QED BY <3>1, <4>2
    <3>3. nextId' = nextId + 1
      BY <1>3 DEF SendRequest
    <3> QED BY <3>1, <3>2, <3>3
  <2>2. UNCHANGED <<server, queue, chatter, responses, notes, verifying>>
    BY <1>3 DEF SendRequest
  <2>3. CASE server = "up"
    <3>1. /\ unanswered' = unanswered \cup {nextId'} /\ login' \in {login, "open"} /\ blocked' = TRUE
          /\ UNCHANGED <<call, failed>> /\ call \in Requests
      BY <1>3, <2>3 DEF SendRequest
    <3>2. SessionTypeOK'
      BY <2>1, <2>2, <3>1 DEF SessionInv, SessionTypeOK
    <3>3. InUse'
      BY <1>1, <2>1, <2>2, <3>1 DEF SessionInv, InUse
    <3>4. Numbered' /\ Blocking'
      BY <2>1, <3>1 DEF Numbered, Sent, Blocking
    <3>5. nextId' \notin responses'
      BY <1>1, <2>1, <2>2 DEF SessionInv, InUse
    <3>6. call' # "wait"
      BY <3>1 DEF Requests
    <3> QED BY <3>2, <3>3, <3>4, <3>5, <3>6 DEF SessionInv, NothingMislaid
  <2>4. CASE server # "up"
    <3>1. UNCHANGED <<unanswered, login>> /\ Raise /\ call \in Requests
      BY <1>3, <2>4 DEF SendRequest
    <3>2. call' = "close" /\ blocked' = FALSE /\ failed' = TRUE
      BY <3>1 DEF Raise, Requests
    <3>3. SessionTypeOK'
      <4>1. call' \in Calls /\ nextId' \in 0 .. 3 /\ blocked' \in BOOLEAN /\ failed' \in BOOLEAN
        <5>1. nextId' \in 0 .. 3
          BY <2>1
        <5>2. blocked' \in BOOLEAN /\ failed' \in BOOLEAN
          BY <3>2
        <5> QED BY <3>2, <5>1, <5>2, CloseIsCall
      <4> QED BY <2>2, <3>1, <4>1 DEF SessionInv, SessionTypeOK, Calls
    <3>4. InUse'
      BY <1>1, <2>1, <2>2, <3>1 DEF SessionInv, InUse
    <3> QED BY <3>2, <3>3, <3>4, CallKeeps
  <2> QED BY <2>3, <2>4
<1>4. CASE WaitForLogin
  <2>1. UNCHANGED <<wireVars, responses, nextId, verifying>>
    BY <1>4 DEF WaitForLogin
  <2>2. InUse'
    BY <2>1 DEF SessionInv, InUse, wireVars
  <2>3. CASE /\ \A i \in DOMAIN notes : notes[i] # "login completed"
             /\ blocked' = TRUE /\ UNCHANGED <<notes, call, failed>>
    <3>1. call = "wait" /\ "wait" \notin Requests
      BY <1>4 DEF WaitForLogin, Requests
    <3>2. SessionTypeOK'
      BY <2>1, <2>3 DEF SessionInv, SessionTypeOK, wireVars
    <3>3. Numbered' /\ Blocking' /\ NothingMislaid'
      BY <2>1, <2>3, <3>1 DEF SessionInv, Numbered, Sent, Blocking, NothingMislaid
    <3> QED BY <2>2, <3>2, <3>3 DEF SessionInv
  <2>4. CASE Return /\ notes' \in Seq(Bodies)
    <3>1. call = "wait" /\ "wait" \notin Requests
      BY <1>4 DEF WaitForLogin, Requests
    <3>2. call' \in Calls /\ (call' # "close" => nextId' = Drawn(call'))
      BY <2>1, <2>4, <3>1, ReturnNumbers
    <3>3. blocked' = FALSE /\ failed' = failed
      BY <2>4 DEF Return
    <3>4. SessionTypeOK'
      BY <2>1, <2>4, <3>2, <3>3 DEF SessionInv, SessionTypeOK, wireVars, Calls
    <3> QED BY <2>2, <3>2, <3>3, <3>4, CallKeeps
  <2>5. ASSUME NEW i \in DOMAIN notes
        PROVE  SubSeq(notes, 1, i - 1) \o SubSeq(notes, i + 1, Len(notes)) \in Seq(Bodies)
    <3>1. SubSeq(notes, 1, i - 1) \in Seq(Bodies) /\ SubSeq(notes, i + 1, Len(notes)) \in Seq(Bodies)
      BY <1>1, <2>5, SubSeqProperties, LenProperties
    <3> QED BY <3>1, ConcatProperties
  <2> QED BY <1>4, <2>3, <2>4, <2>5 DEF WaitForLogin
<1>5. CASE Receive
  <2>1. /\ queue # <<>> /\ queue' = Tail(queue) /\ blocked = TRUE
        /\ UNCHANGED <<server, login, unanswered, chatter, nextId, verifying>>
    BY <1>5 DEF Receive, SessionInv, SessionTypeOK
  <2>2. queue' \in Seq(Messages) /\ \A i \in DOMAIN queue' : i + 1 \in DOMAIN queue /\ queue'[i] = queue[i + 1]
    BY <1>1, <2>1, HeadTailProperties
  <2>3. Head(queue) \in Messages /\ Head(queue).id \in 0 .. nextId
    BY <1>1, <2>1, HeadTailProperties DEF SessionInv, InUse
  <2>4. call \in Requests \cup {"wait"}
    BY <2>1 DEF SessionInv, Blocking
  <2>5. \A i \in DOMAIN queue' : queue'[i].id \in 0 .. nextId
    BY <2>2 DEF SessionInv, InUse
  <2>6. CASE Raise /\ UNCHANGED <<responses, notes>>
    <3>1. call' \in {"cancel login", "close"} /\ blocked' = FALSE /\ failed' = TRUE
          /\ (call # "wait" => call' = "close")
      BY <2>6 DEF Raise
    <3>2. call' # "close" => nextId' = Drawn(call')
      BY <2>1, <3>1, WaitNumber
    <3>3. SessionTypeOK'
      BY <2>1, <2>2, <2>6, <3>1 DEF SessionInv, SessionTypeOK, Requests
    <3>4. InUse'
      BY <2>1, <2>5, <2>6 DEF SessionInv, InUse
    <3> QED BY <3>1, <3>2, <3>3, <3>4, CallKeeps
  <2>7. CASE Return /\ UNCHANGED <<responses, notes>>
    <3>1. call' \in Calls /\ (call' # "close" => nextId' = Drawn(call'))
      BY <2>1, <2>4, <2>7, ReturnNumbers
    <3>2. blocked' = FALSE /\ failed' = failed
      BY <2>7 DEF Return
    <3>3. SessionTypeOK'
      BY <2>1, <2>2, <2>7, <3>1, <3>2 DEF SessionInv, SessionTypeOK, Calls
    <3>4. InUse'
      BY <2>1, <2>5, <2>7 DEF SessionInv, InUse
    <3> QED BY <3>1, <3>2, <3>3, <3>4, CallKeeps
  <2>8. CASE /\ Head(queue) # Exited /\ ~ Awaited(Head(queue))
             /\ responses' = IF Head(queue).id # 0 THEN responses \cup {Head(queue).id} ELSE responses
             /\ notes' = IF Head(queue).id = 0 THEN Append(notes, Head(queue).body) ELSE notes
             /\ UNCHANGED <<call, blocked, failed>>
    <3> DEFINE m == Head(queue)
    <3>1. m \in Messages /\ m.id \in 0 .. nextId /\ m # Exited /\ ~ Awaited(m)
      BY <2>3, <2>8
    <3>2. responses' \subseteq (responses \cup {m.id}) \ {0} /\ responses' \subseteq 1 .. nextId
      <4>1. responses \subseteq 1 .. nextId /\ nextId \in Nat
        BY <1>1 DEF SessionInv, InUse
      <4>2. responses' = IF m.id # 0 THEN responses \cup {m.id} ELSE responses
        BY <2>8
      <4> HIDE DEF m
      <4>3. CASE m.id = 0
        BY <4>1, <4>2, <4>3
      <4>4. CASE m.id # 0
        <5>1. m.id \in 1 .. nextId
          BY <3>1, <4>1, <4>4
        <5>2. responses' = responses \cup {m.id}
          BY <4>2, <4>4
        <5>3. 0 \notin responses /\ m.id # 0
          BY <4>1, <4>4
        <5> QED BY <4>1, <5>1, <5>2, <5>3
      <4> QED BY <4>3, <4>4
    <3>3. \/ notes' = notes
          \/ m.id = 0 /\ notes' = Append(notes, m.body) /\ m.body \in Bodies /\ m = Notification(m.body)
      BY <2>8, <3>1, Heard
    <3> HIDE DEF m
    <3>4. notes' \in Seq(Bodies)
      BY <1>1, <3>3, AppendProperties
    <3>5. SessionTypeOK'
      BY <1>1, <2>1, <2>2, <2>8, <3>2, <3>4 DEF SessionInv, SessionTypeOK
    <3>6. InUse'
      BY <2>1, <2>5, <3>2 DEF SessionInv, InUse
    <3>7. Numbered' /\ Blocking'
      BY <2>1, <2>8 DEF SessionInv, Numbered, Sent, Blocking
    <3>8. NothingMislaid'
      <4>1. CASE call = "wait"
        <5>1. m.body # "login completed" \/ notes' = notes
          BY <3>1, <3>3, <4>1 DEF Awaited
        <5>2. \A i \in DOMAIN notes : notes[i] # "login completed"
          BY <2>1, <4>1 DEF SessionInv, NothingMislaid
        <5>3. \A i \in DOMAIN notes' : notes'[i] # "login completed"
          <6>1. CASE notes' = notes
            BY <5>2, <6>1
          <6>2. CASE notes' = Append(notes, m.body) /\ m.body \in Bodies /\ m.body # "login completed"
            <7>1. /\ notes' \in Seq(Bodies) /\ Len(notes') = Len(notes) + 1
                  /\ \A i \in 1 .. Len(notes) : notes'[i] = notes[i]
                  /\ notes'[Len(notes) + 1] = m.body
              <8> DEFINE e == m.body
              <8>1. e \in Bodies /\ notes' = Append(notes, e)
                BY <6>2
              <8> HIDE DEF e
              <8>2. /\ notes' \in Seq(Bodies) /\ Len(notes') = Len(notes) + 1
                    /\ \A i \in 1 .. Len(notes) : notes'[i] = notes[i]
                    /\ notes'[Len(notes) + 1] = e
                BY <1>1, <8>1, AppendProperties
              <8> QED BY <8>2 DEF e
            <7>2. Len(notes) \in Nat /\ DOMAIN notes = 1 .. Len(notes) /\ DOMAIN notes' = 1 .. Len(notes')
              BY <1>1, <7>1, LenProperties
            <7>3. ASSUME NEW i \in DOMAIN notes'
                  PROVE  i \in DOMAIN notes \/ i = Len(notes) + 1
              BY <7>1, <7>2
            <7> QED BY <5>2, <6>2, <7>1, <7>2, <7>3
          <6> QED BY <3>3, <5>1, <6>1, <6>2
        <5> QED BY <2>8, <4>1, <5>3 DEF NothingMislaid
      <4>2. CASE call # "wait"
        <5>1. m.id # nextId
          BY <3>1, <4>2 DEF Awaited
        <5>2. nextId \notin responses
          BY <2>1, <4>2 DEF SessionInv, NothingMislaid
        <5> QED BY <2>1, <2>8, <3>2, <4>2, <5>1, <5>2 DEF NothingMislaid
      <4> QED BY <4>1, <4>2
    <3> QED BY <3>5, <3>6, <3>7, <3>8 DEF SessionInv
  <2> QED BY <1>5, <2>6, <2>7, <2>8 DEF Receive
<1>6. CASE Expire
  <2>1. /\ call' \in {"cancel login", "close"} /\ blocked' = FALSE /\ failed' = TRUE
        /\ (call # "wait" => call' = "close") /\ blocked = TRUE
        /\ UNCHANGED <<wireVars, responses, notes, nextId, verifying>>
    BY <1>6 DEF Expire, Raise, SessionInv, SessionTypeOK
  <2>2. call' # "close" => nextId' = Drawn(call')
    BY <2>1, WaitNumber
  <2>3. SessionTypeOK'
    BY <2>1 DEF SessionInv, SessionTypeOK, Requests, wireVars
  <2>4. InUse'
    BY <2>1 DEF SessionInv, InUse, wireVars
  <2> QED BY <2>1, <2>2, <2>3, <2>4, CallKeeps
<1>7. CASE CloseSession
  <2>1. /\ call = "close" /\ call' \in {"done", "launch"} /\ blocked' = blocked /\ failed' = failed
        /\ server' = "none" /\ login' = "none" /\ unanswered' = {} /\ queue' = <<>>
        /\ chatter' = 0 /\ responses' = {} /\ notes' = <<>> /\ nextId' = 0
        /\ verifying' \in BOOLEAN
    BY <1>7 DEF CloseSession, Silent, SessionInv, SessionTypeOK
  <2>2. blocked = FALSE
    BY <2>1 DEF SessionInv, Blocking, SessionTypeOK, Requests
  <2>3. SessionTypeOK'
    BY <2>1, ChatterAssumption DEF SessionInv, SessionTypeOK
  <2>4. InUse'
    BY <2>1 DEF InUse
  <2>5. call' # "close" => nextId' = Drawn(call')
    BY <2>1 DEF Drawn
  <2> QED BY <2>1, <2>2, <2>3, <2>4, <2>5, CallKeeps
<1> QED BY <1>2, <1>3, <1>4, <1>5, <1>6, <1>7 DEF SessionStep

\* What the jobs do to the session.
LEMMA CeremonyKeeps ==
  ASSUME SessionInv, CeremonyBegins \/ CeremonyPresents \/ CeremonyEnds
  PROVE  SessionInv'
<1>1. CASE CeremonyBegins
  <2>1. /\ call = "off" /\ call' = "launch"
        /\ UNCHANGED <<wireVars, responses, notes, nextId, blocked, verifying, failed>>
    BY <1>1 DEF CeremonyBegins
  <2>2. blocked = FALSE
    BY <2>1 DEF SessionInv, Blocking, SessionTypeOK, Requests
  <2>3. SessionTypeOK' /\ InUse'
    BY <2>1 DEF SessionInv, SessionTypeOK, InUse, wireVars
  <2>4. nextId' = Drawn(call')
    BY <2>1, <2>2 DEF SessionInv, Numbered, Sent, Drawn
  <2> QED BY <2>1, <2>2, <2>3, <2>4, CallKeeps
<1>2. CASE CeremonyPresents
  <2>1. /\ call = "present" /\ call' = "wait" /\ blocked' = FALSE /\ failed' = failed
        /\ UNCHANGED <<wireVars, responses, notes, nextId, verifying>>
    BY <1>2, AfterCall DEF CeremonyPresents, Return
  <2>2. "present" \notin Requests
    BY DEF Requests
  <2>3. SessionTypeOK' /\ InUse'
    BY <2>1 DEF SessionInv, SessionTypeOK, InUse, wireVars
  <2>4. nextId' = Drawn(call')
    BY <2>1, <2>2 DEF SessionInv, Numbered, Sent, Drawn
  <2> QED BY <2>1, <2>3, <2>4, CallKeeps
<1>3. CASE CeremonyEnds
  <2>1. /\ call = "done" /\ call' = "off" /\ failed' = FALSE /\ verifying' = FALSE
        /\ UNCHANGED <<wireVars, responses, notes, nextId, blocked>>
    BY <1>3 DEF CeremonyEnds
  <2>2. blocked = FALSE
    BY <2>1 DEF SessionInv, Blocking, SessionTypeOK, Requests
  <2>3. SessionTypeOK' /\ InUse'
    BY <2>1 DEF SessionInv, SessionTypeOK, InUse, wireVars
  <2>4. nextId' = Drawn(call')
    BY <2>1, <2>2 DEF SessionInv, Numbered, Sent, Drawn
  <2> QED BY <2>1, <2>2, <2>3, <2>4, CallKeeps
<1> QED BY <1>1, <1>2, <1>3

-----------------------------------------------------------------------------
(* The inductive invariant of the jobs *)

\* A job runs from its registration until its outcome.
Working == {"open pty", "spawn", "attach", "wait", "detach", "close", "finish", "pause", "ceremony"}
PlacedAt(j) ==
  /\ state[j] = "new" <=> at[j] = "idle"
  /\ state[j] = "running" <=> at[j] \in Working
  /\ process[j] \in {"live", "signalled"} => at[j] \in {"attach", "wait"}

\* The job that runs is the active one, and known.
ActiveAt(j) == at[j] \in Working => active = j /\ j \in known

\* From its opening to its closing a job's descriptor is its PTY; a job has it
\* attached only while its CLI is awaited.
HasPty == {"spawn", "attach", "wait", "detach", "close"}
OpenedAt(j) == at[j] \in HasPty => master[j] \in Fds /\ owner[master[j]] = j
AttachedAt(j) == fd[j] # None => fd[j] = master[j] /\ at[j] \in {"wait", "detach"}

Kept(j) == PlacedAt(j) /\ ActiveAt(j) /\ OpenedAt(j) /\ AttachedAt(j)

\* A line is written to the descriptor that is attached to its job.
Held == sending # NoInput => sending.job \in Jobs /\ sending.fd # None /\ fd[sending.job] = sending.fd

\* The session is in use only while a job is at its ceremony.
InCeremony == call # "off" => \E j \in Jobs : at[j] = "ceremony"

JobsInv == JobsTypeOK /\ (\A j \in Jobs : Kept(j)) /\ Held /\ InCeremony
Inv == JobsInv /\ SessionInv

-----------------------------------------------------------------------------
(* The jobs' steps *)

\* No job but j moves.
Others(j) ==
  \A k \in Jobs \ {j} :
    /\ at'[k] = at[k] /\ state'[k] = state[k] /\ process'[k] = process[k]
    /\ master'[k] = master[k] /\ fd'[k] = fd[k]

\* A step of one job leaves the others where they were, as long as it takes no descriptor
\* of theirs and does not make them inactive.
LEMMA StepOfOne ==
  ASSUME JobsInv, JobsTypeOK', NEW j \in Jobs, Others(j), Kept(j)', UNCHANGED <<known, sending>>,
         active' = active \/ (active = j /\ active' = None),
         \A f \in Fds : owner[f] \in Jobs \ {j} => owner'[f] = owner[f],
         sending.job = j => fd'[j] = fd[j],
         InCeremony'
  PROVE  JobsInv'
<1>1. ASSUME NEW k \in Jobs \ {j}
      PROVE  Kept(k)'
  <2>1. Kept(k) /\ at'[k] = at[k] /\ state'[k] = state[k] /\ process'[k] = process[k]
        /\ master'[k] = master[k] /\ fd'[k] = fd[k]
    BY DEF JobsInv, Others
  <2>2. PlacedAt(k)'
    BY <2>1 DEF Kept, PlacedAt
  <2>3. ActiveAt(k)'
    BY <2>1 DEF Kept, ActiveAt
  <2>4. OpenedAt(k)'
    BY <2>1 DEF Kept, OpenedAt
  <2>5. AttachedAt(k)'
    BY <2>1 DEF Kept, AttachedAt
  <2> QED BY <2>2, <2>3, <2>4, <2>5 DEF Kept
<1>2. Held'
  <2>1. CASE sending = NoInput
    BY <2>1 DEF Held
  <2>2. CASE sending # NoInput
    <3>1. sending.job \in Jobs /\ sending.fd # None /\ fd[sending.job] = sending.fd
      BY <2>2 DEF JobsInv, Held
    <3>2. fd'[sending.job] = fd[sending.job]
      BY <3>1 DEF Others
    <3> QED BY <3>1, <3>2 DEF Held
  <2> QED BY <2>1, <2>2
<1> QED BY <1>1, <1>2 DEF JobsInv

\* While a job works nothing else does, so that a job at work may begin a ceremony.
LEMMA WorkingAlone ==
  ASSUME JobsInv, NEW j \in Jobs, NEW k \in Jobs, at[j] \in Working, at[k] \in Working
  PROVE  j = k
  BY DEF JobsInv, Kept, ActiveAt

LEMMA NoneIsNothing == None \notin Jobs /\ None \notin Fds
  BY JobsAssumption DEF None, Jobs, Fds

LEMMA OpenPtyKeeps ==
  ASSUME JobsInv, JobsTypeOK', NEW j \in Jobs, OpenPty(j)
  PROVE  JobsInv'
<1>1. /\ at[j] = "open pty" /\ UNCHANGED <<known, active, sending, call, process, fd>>
      /\ \/ \E f \in Fds : /\ owner[f] = None /\ owner' = [owner EXCEPT ![f] = j]
                            /\ master' = [master EXCEPT ![j] = f]
                            /\ at' = [at EXCEPT ![j] = "spawn"] /\ state' = state
         \/ /\ state' = [state EXCEPT ![j] = "failed"]
            /\ at' = [at EXCEPT ![j] = "give up"] /\ UNCHANGED <<owner, master>>
  BY DEF OpenPty, Goto, serviceVars, sessionVars, callVars
<1>2. /\ at \in [Jobs -> Steps] /\ master \in [Jobs -> Fds \cup {None}] /\ DOMAIN state = Jobs
      /\ DOMAIN owner = Fds
  BY DEF JobsInv, JobsTypeOK
<1>3. Others(j)
  BY <1>1, <1>2 DEF Others
<1>4. Kept(j)
  BY DEF JobsInv
<1>5. Kept(j)'
  BY <1>1, <1>2, <1>4 DEF Kept, PlacedAt, ActiveAt, OpenedAt, AttachedAt, Working, HasPty
<1>6. \A f \in Fds : owner[f] \in Jobs \ {j} => owner'[f] = owner[f]
  BY <1>1, <1>2, NoneIsNothing
<1>7. InCeremony'
  BY <1>1, <1>2 DEF JobsInv, InCeremony
<1> QED BY <1>1, <1>3, <1>5, <1>6, <1>7, StepOfOne

LEMMA SpawnCliKeeps ==
  ASSUME JobsInv, JobsTypeOK', NEW j \in Jobs, SpawnCli(j)
  PROVE  JobsInv'
<1>1. /\ at[j] = "spawn" /\ UNCHANGED <<known, active, sending, call, fd, master>>
      /\ \/ /\ process' = [process EXCEPT ![j] = "live"]
            /\ at' = [at EXCEPT ![j] = "attach"] /\ UNCHANGED <<owner, state>>
         \/ /\ owner' = [owner EXCEPT ![master[j]] = None]
            /\ state' = [state EXCEPT ![j] = "failed"]
            /\ at' = [at EXCEPT ![j] = "give up"] /\ UNCHANGED process
  BY DEF SpawnCli, Goto, serviceVars, sessionVars, callVars
<1>2. DOMAIN at = Jobs /\ DOMAIN process = Jobs /\ DOMAIN state = Jobs /\ DOMAIN owner = Fds
  BY DEF JobsInv, JobsTypeOK
<1>3. Others(j)
  BY <1>1, <1>2 DEF Others
<1>4. Kept(j) /\ owner[master[j]] = j
  BY <1>1 DEF JobsInv, Kept, OpenedAt, HasPty
<1>5. Kept(j)'
  BY <1>1, <1>2, <1>4 DEF Kept, PlacedAt, ActiveAt, OpenedAt, AttachedAt, Working, HasPty
<1>6. \A f \in Fds : owner[f] \in Jobs \ {j} => owner'[f] = owner[f]
  BY <1>1, <1>2, <1>4
<1>7. InCeremony'
  BY <1>1, <1>2 DEF JobsInv, InCeremony
<1> QED BY <1>1, <1>3, <1>5, <1>6, <1>7, StepOfOne

LEMMA AttachPtyKeeps ==
  ASSUME JobsInv, JobsTypeOK', NEW j \in Jobs, AttachPty(j)
  PROVE  JobsInv'
<1>1. /\ at[j] = "attach" /\ UNCHANGED <<known, active, sending, call, state, process, master, owner>>
      /\ fd' = [fd EXCEPT ![j] = master[j]] /\ at' = [at EXCEPT ![j] = "wait"]
  BY DEF AttachPty, Goto, serviceVars, osVars, sessionVars, callVars
<1>2. DOMAIN at = Jobs /\ DOMAIN fd = Jobs
  BY DEF JobsInv, JobsTypeOK
<1>3. Others(j)
  BY <1>1, <1>2 DEF Others
<1>4. Kept(j)
  BY DEF JobsInv
<1>5. Kept(j)'
  BY <1>1, <1>2, <1>4 DEF Kept, PlacedAt, ActiveAt, OpenedAt, AttachedAt, Working, HasPty
<1>6. sending.job # j
  <2>1. fd[j] = None
    BY <1>1, <1>4 DEF Kept, AttachedAt
  <2> QED BY <2>1, NoneIsNothing DEF JobsInv, Held, NoInput
<1>7. InCeremony'
  BY <1>1, <1>2 DEF JobsInv, InCeremony
<1> QED BY <1>1, <1>3, <1>5, <1>6, <1>7, StepOfOne

LEMMA WatchKeeps ==
  ASSUME JobsInv, JobsTypeOK', NEW j \in Jobs, AwaitCli(j) \/ DetachPty(j) \/ CloseMaster(j)
  PROVE  JobsInv'
<1>1. /\ UNCHANGED <<known, active, sending, call, state, process, master>>
      /\ \/ /\ at[j] = "wait" /\ process[j] \in {"ok", "bad"} /\ at' = [at EXCEPT ![j] = "detach"]
            /\ UNCHANGED <<fd, owner>>
         \/ /\ at[j] = "detach" /\ sending.job # j /\ at' = [at EXCEPT ![j] = "close"]
            /\ fd' = [fd EXCEPT ![j] = None] /\ UNCHANGED owner
         \/ /\ at[j] = "close" /\ at' = [at EXCEPT ![j] = "finish"]
            /\ owner' = [owner EXCEPT ![master[j]] = None] /\ UNCHANGED fd
  BY DEF AwaitCli, DetachPty, CloseMaster, Locked, Goto, serviceVars, jobVars, osVars, sessionVars, callVars
<1>2. DOMAIN at = Jobs /\ DOMAIN fd = Jobs /\ DOMAIN owner = Fds
  BY DEF JobsInv, JobsTypeOK
<1>3. Others(j)
  BY <1>1, <1>2 DEF Others
<1>4. Kept(j)
  BY DEF JobsInv
<1>5. Kept(j)'
  BY <1>1, <1>2, <1>4 DEF Kept, PlacedAt, ActiveAt, OpenedAt, AttachedAt, Working, HasPty
<1>6. \A f \in Fds : owner[f] \in Jobs \ {j} => owner'[f] = owner[f]
  BY <1>1, <1>2, <1>4 DEF Kept, OpenedAt, HasPty
<1>7. InCeremony'
  BY <1>1, <1>2 DEF JobsInv, InCeremony
<1> QED BY <1>1, <1>3, <1>5, <1>6, <1>7, StepOfOne

LEMMA FinishKeeps ==
  ASSUME JobsInv, JobsTypeOK', NEW j \in Jobs, Finish(j) \/ ClearActive(j) \/ Notify(j)
  PROVE  JobsInv'
<1>1. /\ UNCHANGED <<known, sending, call, fd, process, master, owner>>
      /\ \/ /\ at[j] = "finish" /\ at' = [at EXCEPT ![j] = "clear"] /\ UNCHANGED active
            /\ \E outcome \in {"succeeded", "failed"} : state' = [state EXCEPT ![j] = outcome]
         \/ /\ at[j] \in {"clear", "give up"} /\ active' = (IF active = j THEN None ELSE active)
            /\ \E step \in {"notify", "done"} : at' = [at EXCEPT ![j] = step]
            /\ UNCHANGED state
         \/ /\ at[j] = "notify" /\ at' = [at EXCEPT ![j] = "done"] /\ UNCHANGED <<active, state>>
  BY DEF Finish, ClearActive, Notify, Goto, serviceVars, jobVars, osVars, sessionVars, callVars
<1>2. DOMAIN at = Jobs /\ DOMAIN state = Jobs
  BY DEF JobsInv, JobsTypeOK
<1>3. Others(j)
  BY <1>1, <1>2 DEF Others
<1>4. Kept(j)
  BY DEF JobsInv
<1>5. Kept(j)'
  BY <1>1, <1>2, <1>4 DEF Kept, PlacedAt, ActiveAt, OpenedAt, AttachedAt, Working, HasPty
<1>6. InCeremony'
  BY <1>1, <1>2 DEF JobsInv, InCeremony
<1> QED BY <1>1, <1>3, <1>5, <1>6, StepOfOne

LEMMA CeremonyStepKeeps ==
  ASSUME JobsInv, JobsTypeOK', NEW j \in Jobs, BeginCeremony(j) \/ Present(j) \/ EndCeremony(j)
  PROVE  JobsInv'
<1>1. /\ UNCHANGED <<known, active, sending, fd, process, master, owner>>
      /\ \/ at[j] = "pause" /\ at' = [at EXCEPT ![j] = "ceremony"] /\ UNCHANGED state
         \/ at[j] = "ceremony" /\ UNCHANGED <<at, state>>
         \/ /\ at[j] = "ceremony" /\ at' = [at EXCEPT ![j] = "clear"] /\ call' = "off"
            /\ \E outcome \in {"succeeded", "failed"} : state' = [state EXCEPT ![j] = outcome]
  BY DEF BeginCeremony, Present, EndCeremony, Goto, serviceVars, jobVars, threadVars, osVars
<1>2. DOMAIN at = Jobs /\ DOMAIN state = Jobs
  BY DEF JobsInv, JobsTypeOK
<1>3. Others(j)
  BY <1>1, <1>2 DEF Others
<1>4. Kept(j)
  BY DEF JobsInv
<1>5. Kept(j)'
  BY <1>1, <1>2, <1>4 DEF Kept, PlacedAt, ActiveAt, OpenedAt, AttachedAt, Working, HasPty
<1>6. InCeremony'
  BY <1>1, <1>2 DEF InCeremony
<1> QED BY <1>1, <1>3, <1>5, <1>6, StepOfOne

\* No job runs when one is registered: a running job is the active one.
LEMMA NewJobKeeps ==
  ASSUME JobsInv, JobsTypeOK', NEW j \in Jobs, NEW p \in Offers[j], NewJob(j, p)
  PROVE  JobsInv'
<1>1. /\ state[j] = "new"
      /\ active # None => state[active] # "running"
      /\ known' = KeepRecent(known) \cup {j} /\ active' = j
      /\ state' = [state EXCEPT ![j] = "running"]
      /\ \E step \in {"pause", "open pty"} : at' = [at EXCEPT ![j] = step]
      /\ UNCHANGED <<sending, call, fd, process, master, owner>>
  BY DEF NewJob, Goto, threadVars, osVars, sessionVars, callVars
<1>2. DOMAIN at = Jobs /\ DOMAIN state = Jobs
  BY DEF JobsInv, JobsTypeOK
<1>3. \A k \in Jobs : at[k] \notin Working
  <2>1. ASSUME NEW k \in Jobs, at[k] \in Working
        PROVE  FALSE
    <3>1. active = k /\ state[k] = "running"
      BY <2>1 DEF JobsInv, Kept, ActiveAt, PlacedAt
    <3> QED BY <1>1, <3>1, NoneIsNothing
  <2> QED BY <2>1
<1>4. at[j] = "idle"
  BY <1>1 DEF JobsInv, Kept, PlacedAt
<1>5. ASSUME NEW k \in Jobs \ {j}
      PROVE  Kept(k)'
  <2>1. /\ Kept(k) /\ at'[k] = at[k] /\ state'[k] = state[k] /\ process'[k] = process[k]
        /\ master'[k] = master[k] /\ fd'[k] = fd[k]
    BY <1>1, <1>2 DEF JobsInv
  <2>2. PlacedAt(k)'
    BY <2>1 DEF Kept, PlacedAt
  <2>3. ActiveAt(k)'
    BY <1>3, <2>1 DEF ActiveAt
  <2>4. OpenedAt(k)' /\ AttachedAt(k)'
    BY <1>1, <2>1 DEF Kept, OpenedAt, AttachedAt
  <2> QED BY <2>2, <2>3, <2>4 DEF Kept
<1>6. Kept(j)'
  <2>1. Kept(j)
    BY DEF JobsInv
  <2>2. PlacedAt(j)'
    BY <1>1, <1>2, <1>4, <2>1 DEF Kept, PlacedAt, Working
  <2>3. ActiveAt(j)'
    BY <1>1 DEF ActiveAt
  <2>4. OpenedAt(j)' /\ AttachedAt(j)'
    BY <1>1, <1>2, <1>4, <2>1 DEF Kept, OpenedAt, AttachedAt, HasPty
  <2> QED BY <2>2, <2>3, <2>4 DEF Kept
<1>7. Held' /\ InCeremony'
  BY <1>1, <1>2, <1>3 DEF JobsInv, Held, InCeremony, Working
<1> QED BY <1>5, <1>6, <1>7 DEF JobsInv

\* Steps that move no job: what the pump reads, an operator types, or a CLI or another
\* part of the server does.
LEMMA StandingKeeps ==
  ASSUME JobsInv, JobsTypeOK', UNCHANGED <<serviceVars, state, fd, at, master>>,
         call' # "off" => call # "off",
         \A j \in Jobs : process'[j] = process[j] \/ process'[j] \in {"ok", "bad"}
                           \/ (process[j] = "live" /\ process'[j] = "signalled"),
         \A f \in Fds : owner[f] \in Jobs => owner'[f] = owner[f],
         Held'
  PROVE  JobsInv'
<1>1. ASSUME NEW j \in Jobs
      PROVE  Kept(j)'
  <2>1. Kept(j)
    BY DEF JobsInv
  <2>2. PlacedAt(j)'
    BY <2>1 DEF Kept, PlacedAt
  <2>3. ActiveAt(j)'
    BY <2>1 DEF Kept, ActiveAt, serviceVars
  <2>4. OpenedAt(j)' /\ AttachedAt(j)'
    BY <2>1 DEF Kept, OpenedAt, AttachedAt
  <2> QED BY <2>2, <2>3, <2>4 DEF Kept
<1>2. InCeremony'
  BY DEF JobsInv, InCeremony
<1> QED BY <1>1, <1>2 DEF JobsInv

-----------------------------------------------------------------------------
(* The shape of the jobs *)

LEMMA NewJobType ==
  ASSUME JobsTypeOK, NEW j \in Jobs, NEW p \in Offers[j], NewJob(j, p)
  PROVE  JobsTypeOK'
<1>1. p \in {"none", "claude", "antigravity", "codex"}
  BY JobsAssumption
<1>2. KeepRecent(known) \in SUBSET Jobs
  BY DEF KeepRecent, JobsTypeOK
<1>3. known' \in SUBSET Jobs /\ active' \in Jobs \cup {None}
  BY <1>2 DEF NewJob
<1>4. provider' \in [Jobs -> {"none", "claude", "antigravity", "codex"}]
  BY <1>1 DEF NewJob, JobsTypeOK
<1>5. state' \in [Jobs -> {"new", "running", "succeeded", "failed"}]
  BY DEF NewJob, JobsTypeOK
<1>6. at' \in [Jobs -> Steps]
  BY DEF NewJob, JobsTypeOK, Goto, Steps
<1> QED BY <1>3, <1>4, <1>5, <1>6 DEF NewJob, JobsTypeOK, osVars

LEMMA PtyType ==
  ASSUME JobsTypeOK, NEW j \in Jobs, OpenPty(j) \/ SpawnCli(j) \/ AttachPty(j)
  PROVE  JobsTypeOK'
<1>1. CASE OpenPty(j)
  <2>1. UNCHANGED <<known, active, provider, fd, link, pump, process, sending, notified>>
    BY <1>1 DEF OpenPty, serviceVars
  <2>2. at' \in [Jobs -> Steps] /\ state' \in [Jobs -> {"new", "running", "succeeded", "failed"}]
    BY <1>1 DEF OpenPty, Goto, JobsTypeOK, Steps
  <2>3. \/ \E f \in Fds : owner' = [owner EXCEPT ![f] = j] /\ master' = [master EXCEPT ![j] = f]
        \/ UNCHANGED <<owner, master>>
    BY <1>1 DEF OpenPty
  <2>4. owner' \in [Fds -> Jobs \cup {None, Other}]
    BY <2>3 DEF JobsTypeOK
  <2>5. master' \in [Jobs -> Fds \cup {None}]
    BY <2>3 DEF JobsTypeOK
  <2> QED BY <2>1, <2>2, <2>4, <2>5 DEF JobsTypeOK
<1>2. CASE SpawnCli(j)
  <2>1. UNCHANGED <<known, active, provider, fd, link, master, pump, sending, notified>>
    BY <1>2 DEF SpawnCli, serviceVars
  <2>2. at' \in [Jobs -> Steps] /\ state' \in [Jobs -> {"new", "running", "succeeded", "failed"}]
    BY <1>2 DEF SpawnCli, Goto, JobsTypeOK, Steps
  <2>3. process' \in [Jobs -> {"none", "live", "signalled", "ok", "bad"}]
    BY <1>2 DEF SpawnCli, JobsTypeOK
  <2>4. owner' \in [Fds -> Jobs \cup {None, Other}]
    BY <1>2 DEF SpawnCli, JobsTypeOK
  <2> QED BY <2>1, <2>2, <2>3, <2>4 DEF JobsTypeOK
<1>3. CASE AttachPty(j)
  <2>1. UNCHANGED <<known, active, provider, state, link, master, process, owner, sending, notified>>
    BY <1>3 DEF AttachPty, serviceVars, osVars
  <2>2. at' \in [Jobs -> Steps] /\ fd' \in [Jobs -> Fds \cup {None}] /\ pump' \in SUBSET Jobs
    BY <1>3 DEF AttachPty, Goto, JobsTypeOK, Steps
  <2> QED BY <2>1, <2>2 DEF JobsTypeOK
<1> QED BY <1>1, <1>2, <1>3

LEMMA WatchType ==
  ASSUME JobsTypeOK, NEW j \in Jobs, AwaitCli(j) \/ DetachPty(j) \/ CloseMaster(j) \/ Finish(j)
  PROVE  JobsTypeOK'
<1>1. UNCHANGED <<known, active, provider, link, master, pump, process, sending, notified>>
  BY DEF AwaitCli, DetachPty, CloseMaster, Finish, serviceVars, jobVars, osVars
<1>2. \E step \in Steps : at' = [at EXCEPT ![j] = step]
  BY DEF AwaitCli, DetachPty, CloseMaster, Finish, Goto, Steps
<1>3. state' = state \/ \E outcome \in {"succeeded", "failed"} : state' = [state EXCEPT ![j] = outcome]
  BY DEF AwaitCli, DetachPty, CloseMaster, Finish, jobVars
<1>4. fd' \in {fd, [fd EXCEPT ![j] = None]}
  BY DEF AwaitCli, DetachPty, CloseMaster, Finish, jobVars
<1>5. owner' \in {owner, [owner EXCEPT ![master[j]] = None]}
  BY DEF AwaitCli, DetachPty, CloseMaster, Finish, osVars
<1>6. /\ at' \in [Jobs -> Steps] /\ fd' \in [Jobs -> Fds \cup {None}]
      /\ owner' \in [Fds -> Jobs \cup {None, Other}]
  BY <1>2, <1>4, <1>5 DEF JobsTypeOK
<1>7. state' \in [Jobs -> {"new", "running", "succeeded", "failed"}]
  BY <1>3 DEF JobsTypeOK
<1> QED BY <1>1, <1>6, <1>7 DEF JobsTypeOK

LEMMA EndType ==
  ASSUME JobsTypeOK, NEW j \in Jobs,
         BeginCeremony(j) \/ Present(j) \/ EndCeremony(j) \/ ClearActive(j) \/ Notify(j)
  PROVE  JobsTypeOK'
<1>1. UNCHANGED <<known, provider, fd, master, pump, process, owner, sending>>
  BY DEF BeginCeremony, Present, EndCeremony, ClearActive, Notify, serviceVars, jobVars, threadVars, osVars
<1>2. active' \in Jobs \cup {None} /\ link' \in SUBSET Jobs /\ notified' \in SUBSET Jobs
  BY DEF BeginCeremony, Present, EndCeremony, ClearActive, Notify, JobsTypeOK, serviceVars, jobVars
<1>3. at' = at \/ \E step \in Steps : at' = [at EXCEPT ![j] = step]
  BY DEF BeginCeremony, Present, EndCeremony, ClearActive, Notify, threadVars, Goto, Steps
<1>4. state' = state \/ \E outcome \in {"succeeded", "failed"} : state' = [state EXCEPT ![j] = outcome]
  BY DEF BeginCeremony, Present, EndCeremony, ClearActive, Notify, jobVars
<1>5. at' \in [Jobs -> Steps]
  BY <1>3 DEF JobsTypeOK
<1>6. state' \in [Jobs -> {"new", "running", "succeeded", "failed"}]
  BY <1>4 DEF JobsTypeOK
<1> QED BY <1>1, <1>2, <1>5, <1>6 DEF JobsTypeOK

\* Steps of a pump, an operator, a CLI or another part of the server.
LEMMA StandingType ==
  ASSUME JobsTypeOK, UNCHANGED <<serviceVars, provider, state, fd, at, master, notified>>,
         link' \in SUBSET Jobs, pump' \in SUBSET Jobs,
         process' \in [Jobs -> {"none", "live", "signalled", "ok", "bad"}],
         owner' \in [Fds -> Jobs \cup {None, Other}],
         sending' \in [job : Jobs \cup {None}, fd : Fds \cup {None}]
  PROVE  JobsTypeOK'
BY DEF JobsTypeOK, serviceVars

-----------------------------------------------------------------------------
(* Every step keeps the invariant *)

\* A step of a job that does not touch the session.
LEMMA SessionStays ==
  ASSUME SessionInv, UNCHANGED sessionVars
  PROVE  SessionInv'
<1>1. /\ UNCHANGED <<server, login, unanswered, queue, chatter>>
      /\ UNCHANGED <<responses, notes, nextId, call, blocked, verifying, failed>>
  BY DEF sessionVars, wireVars, callVars
<1>2. SessionTypeOK'
  BY <1>1 DEF SessionInv, SessionTypeOK
<1>3. Numbered' /\ Blocking' /\ NothingMislaid'
  BY <1>1 DEF SessionInv, Numbered, Sent, Blocking, NothingMislaid
<1>4. InUse'
  BY <1>1 DEF SessionInv, InUse
<1> QED BY <1>2, <1>3, <1>4 DEF SessionInv

LEMMA PumpKeeps ==
  ASSUME Inv, NEW j \in Jobs, PumpLine(j) \/ PumpEnds(j)
  PROVE  Inv'
<1>1. /\ UNCHANGED <<serviceVars, provider, state, fd, at, master, process, owner, sending, notified>>
      /\ UNCHANGED sessionVars
  BY DEF PumpLine, PumpEnds, jobVars, threadVars, osVars
<1>2. link' \in SUBSET Jobs /\ pump' \in SUBSET Jobs
  BY DEF Inv, JobsInv, JobsTypeOK, PumpLine, PumpEnds, jobVars, threadVars
<1>3. JobsTypeOK'
  BY <1>1, <1>2, StandingType DEF Inv, JobsInv, JobsTypeOK
<1>4. Held' /\ call' = call
  BY <1>1 DEF Inv, JobsInv, Held, sessionVars, callVars
<1>5. JobsInv'
  BY <1>1, <1>3, <1>4, StandingKeeps DEF Inv
<1> QED BY <1>1, <1>5, SessionStays DEF Inv

LEMMA InputKeeps ==
  ASSUME Inv, (\E j \in Jobs : TakeInput(j)) \/ WriteInput
  PROVE  Inv'
<1>1. /\ UNCHANGED <<serviceVars, provider, state, fd, link, at, master, pump, process, owner, notified>>
      /\ UNCHANGED sessionVars
  BY DEF TakeInput, WriteInput, jobVars, threadVars, osVars
<1>2. sending' \in [job : Jobs \cup {None}, fd : Fds \cup {None}] /\ Held'
  <2>1. CASE \E j \in Jobs : TakeInput(j)
    <3>1. PICK j \in Jobs : TakeInput(j)
      BY <2>1
    <3>2. /\ sending' = [job |-> j, fd |-> fd[j]] /\ fd[j] \in Fds \cup {None} /\ fd[j] # None
          /\ fd' = fd
      BY <1>1, <3>1 DEF TakeInput, Inv, JobsInv, JobsTypeOK
    <3> QED BY <3>2 DEF Held
  <2>2. CASE WriteInput
    BY <2>2 DEF WriteInput, NoInput, Held
  <2> QED BY <2>1, <2>2
<1>3. JobsTypeOK'
  BY <1>1, <1>2, StandingType DEF Inv, JobsInv, JobsTypeOK
<1>4. call' = call
  BY <1>1 DEF sessionVars, callVars
<1>5. JobsInv'
  BY <1>1, <1>2, <1>3, <1>4, StandingKeeps DEF Inv
<1> QED BY <1>1, <1>5, SessionStays DEF Inv

LEMMA OutsideKeeps ==
  ASSUME Inv,
         (\E j \in Jobs : Cancel(j) \/ CliExits(j)) \/ (\E f \in Fds : OtherOpens(f) \/ OtherCloses(f))
  PROVE  Inv'
<1>1. UNCHANGED <<serviceVars, jobVars, threadVars, sending, notified>> /\ UNCHANGED sessionVars
  BY DEF Cancel, CliExits, OtherOpens, OtherCloses
<1>2. /\ process' \in [Jobs -> {"none", "live", "signalled", "ok", "bad"}]
      /\ \A k \in Jobs : process'[k] = process[k] \/ process'[k] \in {"ok", "bad"}
                           \/ (process[k] = "live" /\ process'[k] = "signalled")
  BY DEF Cancel, CliExits, OtherOpens, OtherCloses, Inv, JobsInv, JobsTypeOK
<1>3. /\ owner' \in [Fds -> Jobs \cup {None, Other}]
      /\ \A f \in Fds : owner[f] \in Jobs => owner'[f] = owner[f]
  <2>1. owner' = owner \/ \E f \in Fds : owner[f] \in {None, Other}
                             /\ \E who \in {None, Other} : owner' = [owner EXCEPT ![f] = who]
    BY DEF Cancel, CliExits, OtherOpens, OtherCloses
  <2>2. None \notin Jobs /\ Other \notin Jobs
    BY JobsAssumption DEF None, Other, Jobs
  <2>3. owner \in [Fds -> Jobs \cup {None, Other}]
    BY DEF Inv, JobsInv, JobsTypeOK
  <2> QED BY <2>1, <2>2, <2>3
<1>4. JobsTypeOK'
  BY <1>1, <1>2, <1>3, StandingType DEF Inv, JobsInv, JobsTypeOK, jobVars, threadVars
<1>5. Held' /\ call' = call
  BY <1>1 DEF Inv, JobsInv, Held, sessionVars, callVars, jobVars
<1>6. UNCHANGED <<serviceVars, state, fd, at, master>>
  BY <1>1 DEF jobVars, threadVars
<1>7. JobsInv'
  BY <1>2, <1>3, <1>4, <1>5, <1>6, StandingKeeps DEF Inv
<1> QED BY <1>1, <1>7, SessionStays DEF Inv

\* A session that is off takes no step of its own.
LEMMA SessionKeeps ==
  ASSUME Inv, InSession(SessionStep) \/ InSession(ServerStep)
  PROVE  Inv'
<1>1. UNCHANGED <<serviceVars, jobVars, threadVars, osVars, sending, notified>>
  BY DEF InSession
<1>2. SessionStep \/ ServerStep
  BY DEF InSession
<1>3. SessionInv'
  BY <1>2, ThreadKeeps, ServerKeeps DEF Inv
<1>4. call' # "off" => call # "off"
  <2>1. CASE ServerStep
    BY <2>1 DEF ServerStep, Answer, AnnounceLogin, SayUnasked, ServerDies, callVars
  <2>2. CASE SessionStep
    <3>1. blocked = TRUE => call # "off"
      BY DEF Inv, SessionInv, Blocking, Requests
    <3>2. blocked \in BOOLEAN
      BY DEF Inv, SessionInv, SessionTypeOK
    <3> QED BY <2>2, <3>1, <3>2
            DEF SessionStep, Launch, SendRequest, WaitForLogin, Receive, Expire, CloseSession, Requests
  <2> QED BY <1>2, <2>1, <2>2
<1>5. JobsTypeOK' /\ Held'
  BY <1>1 DEF Inv, JobsInv, JobsTypeOK, Held, serviceVars, jobVars, threadVars, osVars
<1>6. JobsInv'
  BY <1>1, <1>4, <1>5, StandingKeeps DEF Inv, jobVars, threadVars, osVars
<1> QED BY <1>3, <1>6 DEF Inv

LEMMA JobStepType ==
  ASSUME JobsTypeOK, NEW j \in Jobs, JobStep(j)
  PROVE  JobsTypeOK'
BY PtyType, WatchType, EndType DEF JobStep

LEMMA JobStepKeeps ==
  ASSUME Inv, NEW j \in Jobs, JobStep(j)
  PROVE  Inv'
<1>1. JobsTypeOK'
  BY JobStepType DEF Inv, JobsInv
<1>2. JobsInv'
  BY <1>1, OpenPtyKeeps, SpawnCliKeeps, AttachPtyKeeps, WatchKeeps, FinishKeeps, CeremonyStepKeeps
     DEF JobStep, Inv
<1>3. SessionInv'
  <2>1. CASE BeginCeremony(j)
    <3>1. at[j] = "pause" /\ j \in Jobs
      BY <2>1 DEF BeginCeremony
    <3>2. call = "off"
      <4>1. ASSUME NEW k \in Jobs, at[k] = "ceremony"
            PROVE  FALSE
        <5>1. at[j] \in Working /\ at[k] \in Working
          BY <3>1, <4>1 DEF Working
        <5>2. j = k
          BY <5>1, WorkingAlone DEF Inv
        <5> QED BY <3>1, <4>1, <5>2
      <4> QED BY <4>1 DEF Inv, JobsInv, InCeremony
    <3>3. CeremonyBegins
      BY <2>1, <3>2 DEF BeginCeremony, CeremonyBegins
    <3> QED BY <3>3, CeremonyKeeps DEF Inv
  <2>2. CASE Present(j)
    <3>1. CeremonyPresents
      BY <2>2 DEF Present, CeremonyPresents
    <3> QED BY <3>1, CeremonyKeeps DEF Inv
  <2>3. CASE EndCeremony(j)
    <3>1. CeremonyEnds
      BY <2>3 DEF EndCeremony, CeremonyEnds
    <3> QED BY <3>1, CeremonyKeeps DEF Inv
  <2>4. CASE OpenPty(j) \/ SpawnCli(j) \/ AttachPty(j) \/ AwaitCli(j) \/ DetachPty(j)
             \/ CloseMaster(j) \/ Finish(j) \/ ClearActive(j) \/ Notify(j)
    <3>1. UNCHANGED sessionVars
      BY <2>4 DEF OpenPty, SpawnCli, AttachPty, AwaitCli, DetachPty, CloseMaster, Finish,
                  ClearActive, Notify
    <3> QED BY <3>1, SessionStays DEF Inv
  <2> QED BY <2>1, <2>2, <2>3, <2>4 DEF JobStep
<1> QED BY <1>2, <1>3 DEF Inv

LEMMA InvInit == Init => Inv
<1> SUFFICES ASSUME Init
             PROVE  Inv
  OBVIOUS
<1>1. JobsTypeOK
  BY DEF Init, JobsTypeOK, Steps, NoInput
<1>2. \A j \in Jobs : Kept(j)
  BY DEF Init, Kept, PlacedAt, ActiveAt, OpenedAt, AttachedAt, Working, HasPty
<1>3. SessionInit
  BY DEF Init
<1>4. Held /\ InCeremony
  BY <1>3 DEF Init, Held, InCeremony, SessionInit
<1>5. SessionTypeOK
  <2>1. queue \in Seq(Messages) /\ notes \in Seq(Bodies)
    BY <1>3 DEF SessionInit
  <2>2. chatter \in 0 .. Chatter
    BY <1>3, ChatterAssumption DEF SessionInit
  <2>3. /\ unanswered \in SUBSET (1 .. 3) /\ responses \in SUBSET (1 .. 3) /\ nextId \in 0 .. 3
        /\ call = "off" /\ server = "none" /\ login = "none"
    BY <1>3 DEF SessionInit
  <2>4. blocked \in BOOLEAN /\ verifying \in BOOLEAN /\ failed \in BOOLEAN
    BY <1>3 DEF SessionInit
  <2> QED BY <2>1, <2>2, <2>3, <2>4 DEF SessionTypeOK
<1>6. Numbered /\ Blocking /\ NothingMislaid
  BY <1>3 DEF SessionInit, Numbered, Sent, Drawn, Blocking, NothingMislaid
<1>7. InUse
  BY <1>3 DEF SessionInit, InUse
<1> QED BY <1>1, <1>2, <1>4, <1>5, <1>6, <1>7 DEF Inv, JobsInv, SessionInv

LEMMA InvStep == Inv /\ [Next]_vars => Inv'
<1> SUFFICES ASSUME Inv, [Next]_vars
             PROVE  Inv'
  OBVIOUS
<1>1. ASSUME NEW j \in Jobs, NEW p \in Offers[j], NewJob(j, p)
      PROVE  Inv'
  <2>1. JobsTypeOK'
    BY <1>1, NewJobType DEF Inv, JobsInv
  <2>2. JobsInv'
    BY <1>1, <2>1, NewJobKeeps DEF Inv
  <2>3. UNCHANGED sessionVars
    BY <1>1 DEF NewJob
  <2> QED BY <2>2, <2>3, SessionStays DEF Inv
<1>2. ASSUME NEW j \in Jobs, JobStep(j)
      PROVE  Inv'
  BY <1>2, JobStepKeeps
<1>3. ASSUME NEW j \in Jobs, PumpLine(j) \/ PumpEnds(j) \/ OperatorStep(j)
      PROVE  Inv'
  BY <1>3, PumpKeeps, InputKeeps, OutsideKeeps DEF OperatorStep
<1>4. CASE WriteInput
  BY <1>4, InputKeeps
<1>5. CASE InSession(SessionStep)
  BY <1>5, SessionKeeps
<1>6. CASE OutsideStep
  BY <1>6, SessionKeeps, OutsideKeeps DEF OutsideStep
<1>7. CASE UNCHANGED vars
  <2>1. /\ UNCHANGED <<serviceVars, provider, state, fd, link, at, master, pump, process, owner,
                       sending, notified>>
        /\ UNCHANGED sessionVars
    BY <1>7 DEF vars, jobVars, threadVars, osVars
  <2>2. JobsTypeOK' /\ Held' /\ call' = call
    BY <2>1 DEF Inv, JobsInv, JobsTypeOK, Held, serviceVars, sessionVars, callVars
  <2>3. JobsInv'
    BY <2>1, <2>2, StandingKeeps DEF Inv
  <2> QED BY <2>1, <2>3, SessionStays DEF Inv
<1> QED BY <1>1, <1>2, <1>3, <1>4, <1>5, <1>6, <1>7 DEF Next

THEOREM Invariance == Spec => []Inv
  BY InvInit, InvStep, PTL DEF Spec

-----------------------------------------------------------------------------
(* The theorems *)

\* Every variable of the jobs and of the session keeps its shape.
THEOREM TypeCorrect == Spec => []TypeOK
<1>1. Inv => TypeOK
  BY DEF Inv, JobsInv, SessionInv, TypeOK
<1> QED BY <1>1, Invariance, PTL

\* Ceremonies run one at a time: the job that runs, or has a CLI or a Codex child at
\* work, is the active one and can be polled.
THEOREM CeremoniesAlone == Spec => []OneCeremony
<1>1. Inv => OneCeremony
  <2> SUFFICES ASSUME Inv, NEW j \in Jobs,
                      state[j] = "running" \/ process[j] \in {"live", "signalled"} \/ at[j] = "ceremony"
               PROVE  active = j /\ IsKnown(j)
    BY DEF OneCeremony
  <2>1. at[j] \in Working
    BY DEF Inv, JobsInv, Kept, PlacedAt, Working
  <2> QED BY <2>1 DEF Inv, JobsInv, Kept, ActiveAt, IsKnown
<1> QED BY <1>1, Invariance, PTL

\* While a line is being written the descriptor it goes to is the PTY of the job it was
\* typed for: detach_pty waits for the writer, and only then is the number closed.
THEOREM InputHome == Spec => []InputLandsHome
<1>1. Inv => InputLandsHome
  <2> SUFFICES ASSUME Inv, sending # NoInput
               PROVE  owner[sending.fd] = sending.job
    BY DEF InputLandsHome
  <2>1. sending.job \in Jobs /\ sending.fd # None /\ fd[sending.job] = sending.fd
    BY DEF Inv, JobsInv, Held
  <2>2. Kept(sending.job)
    BY <2>1 DEF Inv, JobsInv
  <2>3. master[sending.job] = sending.fd /\ at[sending.job] \in {"wait", "detach"}
    BY <2>1, <2>2 DEF Kept, AttachedAt
  <2> QED BY <2>2, <2>3 DEF Kept, OpenedAt, HasPty
<1> QED BY <1>1, Invariance, PTL

\* A session never waits for a message it has kept from before.
THEOREM SessionMislaysNothing == Spec => []NothingMislaid
<1>1. Inv => NothingMislaid
  BY DEF Inv, SessionInv
<1> QED BY <1>1, Invariance, PTL

-----------------------------------------------------------------------------
(* The service implements JobService *)

\* How many of some jobs are no earlier than one of them.
LEMMA AndItself ==
  ASSUME NEW jobs \in SUBSET Jobs, NEW j \in jobs
  PROVE  /\ Cardinality({k \in jobs : k >= j}) = Cardinality({k \in jobs : k > j}) + 1
         /\ Cardinality({k \in jobs : k > j}) \in Nat
<1> DEFINE later == {k \in jobs : k > j}
<1>1. Jobs \subseteq Int /\ IsFiniteSet(Jobs)
  BY JobsAssumption, FS_Interval DEF Jobs
<1>2. IsFiniteSet(later)
  <2>1. later \subseteq Jobs
    OBVIOUS
  <2> QED BY <1>1, <2>1, FS_Subset
<1>3. {k \in jobs : k >= j} = later \cup {j}
  <2>1. \A k \in jobs : k >= j <=> k > j \/ k = j
    BY <1>1
  <2> QED BY <2>1
<1>4. j \notin later
  BY <1>1
<1> QED BY <1>2, <1>3, <1>4, FS_AddElement, FS_CardinalityType

\* JobService counts with an instance of its own.
LEMMA SameCount == \A jobs \in SUBSET Jobs : Promise!Cardinality(jobs) = Cardinality(jobs)
  BY Zenon DEF Cardinality, Promise!Cardinality

LEMMA BeginsOne ==
  ASSUME Inv, NEW j \in Jobs, NEW p \in Offers[j], NewJob(j, p)
  PROVE  Promise!Begin(j)
<1>1. /\ state[j] = "new"
      /\ \A k \in 1 .. (j - 1) : state[k] # "new"
      /\ active # None => state[active] # "running"
      /\ known' = KeepRecent(known) \cup {j}
      /\ state' = [state EXCEPT ![j] = "running"]
  BY DEF NewJob
<1>2. known \in SUBSET Jobs /\ Promise!Jobs = Jobs
  BY DEF Inv, JobsInv, JobsTypeOK, Promise!Jobs, Jobs
<1>3. \A k \in Jobs : state[k] # "running"
  <2>1. ASSUME NEW k \in Jobs, state[k] = "running"
        PROVE  FALSE
    <3>1. active = k
      BY <2>1 DEF Inv, JobsInv, Kept, ActiveAt, PlacedAt
    <3> QED BY <1>1, <2>1, <3>1, NoneIsNothing
  <2> QED BY <2>1
<1>4. Promise!Running = {}
  BY <1>2, <1>3 DEF Promise!Running
<1>5. KeepRecent(known) = {k \in known : Promise!Kept(k)}
  <2>1. ASSUME NEW k \in known
        PROVE  Promise!Kept(k) <=> ~ (Cardinality({m \in known : m >= k}) > History)
    <3>1. Promise!Kept(k) <=> Cardinality({m \in known : m > k}) < History
      BY <1>2, <1>4, SameCount DEF Promise!Kept
    <3>2. /\ Cardinality({m \in known : m >= k}) = Cardinality({m \in known : m > k}) + 1
          /\ Cardinality({m \in known : m > k}) \in Nat
      BY <1>2, AndItself
    <3> QED BY <3>1, <3>2, JobsAssumption
  <2>2. KeepRecent(known) = known \ {k \in known : Cardinality({m \in known : m >= k}) > History}
    <3>1. {k \in known : state[k] # "running"} = known
      BY <1>2, <1>3
    <3> QED BY <3>1 DEF KeepRecent
  <2> QED BY <2>1, <2>2
<1>6. known' = {k \in known : k \in Promise!Running \/ Promise!Kept(k)} \cup {j}
  BY <1>1, <1>4, <1>5
<1> QED BY <1>1, <1>4, <1>6 DEF Promise!Begin

\* A step of a job gives it its outcome, or nothing its clients see.
LEMMA EndsOne ==
  ASSUME Inv, NEW j \in Jobs, JobStep(j)
  PROVE  Promise!End(j) \/ UNCHANGED <<known, state>>
<1>1. Kept(j)
  BY DEF Inv, JobsInv
<1>2. CASE OpenPty(j) \/ SpawnCli(j) \/ Finish(j) \/ EndCeremony(j)
  <2>1. /\ known' = known
        /\ at[j] \in Working
        /\ state' = state \/ \E outcome \in {"succeeded", "failed"} : state' = [state EXCEPT ![j] = outcome]
    BY <1>2 DEF OpenPty, SpawnCli, Finish, EndCeremony, serviceVars, Working
  <2>2. state[j] = "running"
    BY <1>1, <2>1 DEF Kept, PlacedAt
  <2> QED BY <2>1, <2>2 DEF Promise!End
<1>3. CASE AttachPty(j) \/ AwaitCli(j) \/ DetachPty(j) \/ CloseMaster(j) \/ BeginCeremony(j)
           \/ Present(j) \/ ClearActive(j) \/ Notify(j)
  BY <1>3 DEF AttachPty, AwaitCli, DetachPty, CloseMaster, BeginCeremony, Present, ClearActive, Notify,
              serviceVars, jobVars
<1> QED BY <1>2, <1>3 DEF JobStep

\* What the pane is promised of jobs, it is given: the history is cut down only when a
\* job is registered, from those that ended, and an outcome stands.
THEOREM PromiseKept == Spec => KeepsPromise
<1>1. Init => Promise!ServiceInit
  BY DEF Init, Promise!ServiceInit, Promise!Jobs, Jobs
<1>2. Inv /\ [Next]_vars => [Promise!ServiceNext]_Promise!serviceVars
  <2> SUFFICES ASSUME Inv, [Next]_vars
               PROVE  Promise!ServiceNext \/ UNCHANGED <<known, state>>
    BY DEF Promise!serviceVars
  <2>1. Promise!Jobs = Jobs
    BY DEF Promise!Jobs, Jobs
  <2>2. ASSUME NEW j \in Jobs, NEW p \in Offers[j], NewJob(j, p)
        PROVE  Promise!ServiceNext
    BY <2>1, <2>2, BeginsOne DEF Promise!ServiceNext
  <2>3. ASSUME NEW j \in Jobs, JobStep(j)
        PROVE  Promise!ServiceNext \/ UNCHANGED <<known, state>>
    BY <2>1, <2>3, EndsOne DEF Promise!ServiceNext
  <2>4. ASSUME NEW j \in Jobs, PumpLine(j) \/ PumpEnds(j) \/ OperatorStep(j)
        PROVE  UNCHANGED <<known, state>>
    BY <2>4 DEF PumpLine, PumpEnds, OperatorStep, Cancel, TakeInput, serviceVars, jobVars
  <2>5. CASE WriteInput \/ InSession(SessionStep) \/ OutsideStep \/ UNCHANGED vars
    BY <2>5 DEF WriteInput, InSession, OutsideStep, CliExits, OtherOpens, OtherCloses, vars,
                serviceVars, jobVars
  <2> QED BY <2>2, <2>3, <2>4, <2>5 DEF Next
<1> QED BY <1>1, <1>2, Invariance, PTL DEF Spec, KeepsPromise, Promise!ServiceSpec
=============================================================================
