-------------------------- MODULE GameLoop_proofs ---------------------------
(***************************************************************************)
(* The two threads of the graphical client, for queues of every size, any  *)
(* number of game states, rounds of SyncClock and any offset of the        *)
(* clocks: every variable keeps its type, the scene never goes back, no    *)
(* round trip is measured too long, and the offset of the clocks is wrong  *)
(* by no more than the age of the answers it is the average of.            *)
(***************************************************************************)
EXTENDS GameLoop, Induction_proofs

\* The states in the queue are newer than the scene, and in order.
QueueIsAhead ==
    /\ scene <= handled
    /\ \A i \in DOMAIN IncomingStates :
            scene < IncomingStates[i] /\ IncomingStates[i] <= handled
    /\ \A i, j \in DOMAIN IncomingStates :
            i < j => IncomingStates[i] < IncomingStates[j]

SceneInv == TypeOK /\ QueueIsAhead

-----------------------------------------------------------------------------
(* Queues. *)

\* push keeps a queue within its bound, and adds an item at the end or none.
LEMMA PushFacts ==
    ASSUME NEW S, NEW queue \in Seq(S), Len(queue) <= QueueBound, NEW item \in S
    PROVE  /\ Push(queue, item) \in Seq(S)
           /\ Len(Push(queue, item)) <= QueueBound
           /\ \/ Push(queue, item) = queue
              \/ Push(queue, item) = Append(queue, item)
    BY GameLoopAssumption DEF Push

\* pop takes the first item.
LEMMA PopFacts ==
    ASSUME NEW S, NEW queue \in Seq(S), Len(queue) <= QueueBound, queue # <<>>
    PROVE  /\ Head(queue) \in S /\ Head(queue) = queue[1] /\ 1 \in DOMAIN queue
           /\ Tail(queue) \in Seq(S) /\ Len(Tail(queue)) <= QueueBound
           /\ Len(Tail(queue)) = Len(queue) - 1
           /\ \A i \in DOMAIN Tail(queue) :
                    /\ i \in Nat /\ 1 < i + 1 /\ i + 1 \in DOMAIN queue
                    /\ Tail(queue)[i] = queue[i + 1]
  <1>1. /\ Len(queue) \in Nat /\ Len(queue) >= 1
        /\ DOMAIN queue = 1..Len(queue) /\ Head(queue) = queue[1]
    OBVIOUS
  <1>2. /\ Tail(queue) \in Seq(S) /\ Len(Tail(queue)) = Len(queue) - 1
        /\ DOMAIN Tail(queue) = 1..Len(queue) - 1
        /\ \A i \in 1..Len(queue) - 1 : Tail(queue)[i] = queue[i + 1]
    OBVIOUS
  <1>3. queue[1] \in S
    BY <1>1
  <1>4. \A i \in 1..Len(queue) - 1 :
            i \in Nat /\ 1 < i + 1 /\ i + 1 \in 1..Len(queue)
    BY <1>1
  <1>5. Len(Tail(queue)) <= QueueBound
    BY <1>1, <1>2, GameLoopAssumption
  <1>6. QED
    BY <1>1, <1>2, <1>3, <1>4, <1>5

\* push adds an item after the others.
LEMMA AppendFacts ==
    ASSUME NEW S, NEW queue \in Seq(S), NEW item \in S
    PROVE  /\ Len(queue) \in Nat
           /\ DOMAIN queue = 1..Len(queue)
           /\ DOMAIN Append(queue, item) = 1..Len(queue) + 1
           /\ \A i \in DOMAIN queue :
                    Append(queue, item)[i] = queue[i] /\ queue[i] \in S
           /\ Append(queue, item)[Len(queue) + 1] = item
    OBVIOUS

-----------------------------------------------------------------------------
(* The invariant. *)

\* The clock rounds only move the program counter and the connection state.
LEMMA ClockFrame ==
    ASSUME TypeOK, SyncClock \/ StartGame
    PROVE  /\ netPc' \in {"sync", "await", "synced", "game"}
           /\ m_connectionState' \in {"DISCONNECTED", "CONNECTING", "CONNECTED"}
    BY DEF TypeOK, SyncClock, StartGame, SendClock, ClockSendFails,
           SyncNotConnected, NoClock, ReceiveClock, ClockTimeout, CallFails,
           NextRound

\* The initial state satisfies the invariant.
LEMMA InitSceneInv == Init => SceneInv
    BY GameLoopAssumption DEF Init, SceneInv, TypeOK, QueueIsAhead

\* The steps of the UI thread and its user keep it.
LEMMA UIKeepsInv ==
    ASSUME SceneInv,
           UI \/ CloseWindow \/ \E keyboard \in Keyboard : PressKey(keyboard)
    PROVE  SceneInv'
  <1> USE GameLoopAssumption DEF SceneInv
  <1>1. CASE \E keyboard \in Keyboard : PressKey(keyboard)
    BY <1>1 DEF PressKey, TypeOK, QueueIsAhead, netVars, queueVars
  <1>2. CASE CloseWindow
    BY <1>2 DEF CloseWindow, TypeOK, QueueIsAhead, uiVars, netVars, queueVars
  <1>3. CASE UpdateDisconnected
    BY <1>3 DEF UpdateDisconnected, NextFrame, TypeOK, QueueIsAhead, netVars,
                queueVars
  <1>4. CASE UpdateConnected
    <2>1. /\ OutgoingState' \in Seq(Keyboard)
          /\ Len(OutgoingState') <= QueueBound
      BY <1>4, PushFacts DEF UpdateConnected, QueueInput, TypeOK
    <2>2. QED
      BY <1>4, <2>1 DEF UpdateConnected, TypeOK, QueueIsAhead, netVars
  <1>5. CASE Drain
    <2>1. /\ IncomingStates' \in Seq(1..MaxStates)
          /\ Len(IncomingStates') <= QueueBound
          /\ Len(IncomingStates') = Len(IncomingStates) - 1
          /\ \A i \in DOMAIN IncomingStates' :
                /\ i \in Nat /\ 1 < i + 1 /\ i + 1 \in DOMAIN IncomingStates
                /\ IncomingStates'[i] = IncomingStates[i + 1]
          /\ 1 \in DOMAIN IncomingStates
          /\ scene' = IncomingStates[1] /\ scene' \in 1..MaxStates
      BY <1>5, PopFacts DEF Drain, ShowOldest, TypeOK
    <2>2. TypeOK'
      BY <1>5, <2>1 DEF Drain, TypeOK, netVars
    <2>3. QueueIsAhead'
      <3>1. /\ IncomingStates \in Seq(1..MaxStates)
            /\ handled' = handled /\ scene' = IncomingStates[1]
            /\ 1 \in DOMAIN IncomingStates
        BY <1>5, <2>1, Zenon DEF Drain, TypeOK, netVars
      <3>2. ASSUME NEW i \in DOMAIN IncomingStates'
            PROVE  /\ i \in Nat /\ i + 1 \in DOMAIN IncomingStates
                   /\ IncomingStates'[i] = IncomingStates[i + 1]
                   /\ scene' < IncomingStates'[i]
                   /\ IncomingStates'[i] <= handled'
        <4>1. /\ i \in Nat /\ 1 < i + 1 /\ i + 1 \in DOMAIN IncomingStates
              /\ IncomingStates'[i] = IncomingStates[i + 1]
          BY <2>1, Zenon
        <4>2. QED
          BY <3>1, <4>1 DEF QueueIsAhead
      <3>3. ASSUME NEW i \in DOMAIN IncomingStates',
                   NEW j \in DOMAIN IncomingStates', i < j
            PROVE  IncomingStates'[i] < IncomingStates'[j]
        BY <3>2, <3>3 DEF QueueIsAhead
      <3>4. scene' <= handled'
        BY <3>1 DEF QueueIsAhead
      <3>5. QED
        BY <3>2, <3>3, <3>4 DEF QueueIsAhead
    <2>4. QED
      BY <2>2, <2>3
  <1>6. CASE DrainEnds
    BY <1>6 DEF DrainEnds, NextFrame, TypeOK, QueueIsAhead, netVars, queueVars
  <1>7. QED
    BY <1>1, <1>2, <1>3, <1>4, <1>5, <1>6 DEF UI

\* The steps of the networking thread, of the server and of time keep it.
LEMMA NetworkKeepsInv ==
    ASSUME SceneInv, Network \/ Elsewhere
    PROVE  SceneInv'
  <1> USE GameLoopAssumption DEF SceneInv
  <1>1. CASE Establish
    BY <1>1 DEF Establish, TypeOK, QueueIsAhead, uiVars, queueVars
  <1>2. CASE Synchronize
    <2>1. SyncClock \/ StartGame
      BY <1>2 DEF Synchronize
    <2>2. QED
      BY <1>2, <2>1, ClockFrame
         DEF Synchronize, TypeOK, QueueIsAhead, uiVars, queueVars
  <1>3. CASE SendFrame
    <2>1. /\ OutgoingState' \in Seq(Keyboard) /\ sent' \in Keyboard
          /\ Len(OutgoingState') <= QueueBound
      <3>1. CASE OutgoingState = <<>>
        BY <1>3, <3>1 DEF SendFrame, TypeOK
      <3>2. CASE OutgoingState # <<>>
        BY <1>3, <3>2, PopFacts DEF SendFrame, TypeOK
      <3>3. QED
        BY <3>1, <3>2
    <2>2. QED
      BY <1>3, <2>1 DEF SendFrame, TypeOK, QueueIsAhead, uiVars
  <1>4. CASE SkipFrame
    BY <1>4 DEF SkipFrame, TypeOK, QueueIsAhead, uiVars, queueVars
  <1>5. CASE Receive
    <2>1. CASE ReceiveGameState
      <3>1. /\ handled' = handled + 1 /\ handled' \in 1..MaxStates
            /\ IncomingStates' = Push(IncomingStates, handled')
        BY <2>1 DEF ReceiveGameState, TypeOK
      <3>2. /\ IncomingStates' \in Seq(1..MaxStates)
            /\ Len(IncomingStates') <= QueueBound
            /\ \/ IncomingStates' = IncomingStates
               \/ IncomingStates' = Append(IncomingStates, handled')
        BY <3>1, PushFacts DEF TypeOK
      <3>3. TypeOK'
        BY <1>5, <2>1, <3>1, <3>2 DEF Receive, ReceiveGameState, TypeOK, uiVars
      <3>4. QueueIsAhead'
        <4>1. scene' = scene
          BY <1>5 DEF Receive, uiVars
        <4>2. CASE IncomingStates' = IncomingStates
          BY <3>1, <4>1, <4>2 DEF TypeOK, QueueIsAhead
        <4>3. CASE IncomingStates' = Append(IncomingStates, handled')
          <5>1. /\ Len(IncomingStates) \in Nat
                /\ DOMAIN IncomingStates = 1..Len(IncomingStates)
                /\ DOMAIN IncomingStates' = 1..Len(IncomingStates) + 1
                /\ \A i \in DOMAIN IncomingStates :
                        /\ IncomingStates'[i] = IncomingStates[i]
                        /\ IncomingStates[i] \in Nat
                /\ IncomingStates'[Len(IncomingStates) + 1] = handled'
                /\ handled \in Nat /\ scene \in Nat
            <6>1. /\ IncomingStates \in Seq(1..MaxStates)
                  /\ handled \in Nat /\ scene \in Nat
              BY DEF TypeOK
            <6>2. /\ Len(IncomingStates) \in Nat
                  /\ DOMAIN IncomingStates = 1..Len(IncomingStates)
                  /\ DOMAIN IncomingStates' = 1..Len(IncomingStates) + 1
                  /\ \A i \in DOMAIN IncomingStates :
                          /\ IncomingStates'[i] = IncomingStates[i]
                          /\ IncomingStates[i] \in 1..MaxStates
                  /\ IncomingStates'[Len(IncomingStates) + 1] = handled'
              <7>1. handled' \in 1..MaxStates
                BY <3>1
              <7> DEFINE longer == Append(IncomingStates, handled')
              <7>2. /\ Len(IncomingStates) \in Nat
                    /\ DOMAIN IncomingStates = 1..Len(IncomingStates)
                    /\ DOMAIN longer = 1..Len(IncomingStates) + 1
                    /\ \A i \in DOMAIN IncomingStates :
                            /\ longer[i] = IncomingStates[i]
                            /\ IncomingStates[i] \in 1..MaxStates
                    /\ longer[Len(IncomingStates) + 1] = handled'
                BY <6>1, <7>1, AppendFacts
              <7>3. IncomingStates' = longer
                BY <4>3
              <7> HIDE DEF longer
              <7>4. QED
                BY <7>2, <7>3, Zenon
            <6>3. \A n \in 1..MaxStates : n \in Nat
              OBVIOUS
            <6>4. QED
              BY <6>1, <6>2, <6>3, Zenon
          <5>2. ASSUME NEW i \in DOMAIN IncomingStates'
                PROVE  \/ i \in DOMAIN IncomingStates
                       \/ i = Len(IncomingStates) + 1
            BY <5>1
          <5>3. \A i \in DOMAIN IncomingStates' :
                    scene' < IncomingStates'[i] /\ IncomingStates'[i] <= handled'
            BY <3>1, <4>1, <5>1, <5>2 DEF QueueIsAhead
          <5>4. \A i, j \in DOMAIN IncomingStates' :
                    i < j => IncomingStates'[i] < IncomingStates'[j]
            BY <3>1, <5>1, <5>2 DEF QueueIsAhead
          <5>5. QED
            BY <3>1, <4>1, <5>1, <5>3, <5>4 DEF QueueIsAhead
        <4>4. QED
          BY <3>2, <4>2, <4>3
      <3>5. QED
        BY <3>3, <3>4
    <2>2. CASE ReceiveDisconnect
      BY <1>5, <2>2 DEF Receive, ReceiveDisconnect, TypeOK, QueueIsAhead, uiVars
    <2>3. CASE ReceiveNothing
      BY <1>5, <2>3 DEF Receive, ReceiveNothing, TypeOK, QueueIsAhead, uiVars
    <2>4. QED
      BY <1>5, <2>1, <2>2, <2>3 DEF Receive
  <1>6. CASE Quit
    BY <1>6 DEF Quit, TypeOK, QueueIsAhead, uiVars, queueVars
  <1>7. CASE Elsewhere
    BY <1>7 DEF Elsewhere, Tick, HandleClockSync, TypeOK, QueueIsAhead, uiVars,
                queueVars
  <1>8. QED
    BY <1>1, <1>2, <1>3, <1>4, <1>5, <1>6, <1>7 DEF Network

\* The invariant of the queue of game states, for every size of the queues.
THEOREM SceneInvariant == Spec => []SceneInv
  <1>1. SceneInv /\ [Next]_vars => SceneInv'
    <2> SUFFICES ASSUME SceneInv, [Next]_vars PROVE SceneInv'
      OBVIOUS
    <2>1. CASE Next
      BY <2>1, UIKeepsInv, NetworkKeepsInv DEF Next
    <2>2. CASE UNCHANGED vars
      BY <2>2 DEF vars, uiVars, netVars, queueVars, SceneInv, TypeOK,
                  QueueIsAhead
    <2>3. QED
      BY <2>1, <2>2
  <1>2. QED
    BY <1>1, InitSceneInv, PTL DEF Spec

\* Every variable keeps its type, for queues of every size.
THEOREM TypeCorrect == Spec => []TypeOK
  <1>1. SceneInv => TypeOK
    BY DEF SceneInv
  <1>2. QED
    BY <1>1, SceneInvariant, PTL

\* The UI never shows an older state after a newer one, for queues of every
\* size and any number of game states.
THEOREM SceneAdvances == Spec => SceneOnlyAdvances
  <1>1. SceneInv /\ [Next]_vars => [scene' = 0 \/ scene' >= scene]_vars
    <2> SUFFICES ASSUME SceneInv, Next PROVE scene' = 0 \/ scene' >= scene
      OBVIOUS
    <2>1. CASE Drain
      <3>1. /\ scene' = IncomingStates[1] /\ scene' \in 1..MaxStates
            /\ 1 \in DOMAIN IncomingStates
        BY <2>1, PopFacts DEF Drain, ShowOldest, SceneInv, TypeOK
      <3>2. QED
        BY <3>1 DEF SceneInv, TypeOK, QueueIsAhead
    <2>2. CASE ~Drain
      BY <2>2 DEF Next, UI, PressKey, CloseWindow, UpdateDisconnected,
                  UpdateConnected, DrainEnds, Network, Establish, Synchronize,
                  SendFrame, SkipFrame, Receive, Quit, Elsewhere, uiVars,
                  SceneInv, TypeOK
    <2>3. QED
      BY <2>1, <2>2
  <1>2. QED
    BY <1>1, SceneInvariant, PTL DEF Spec, SceneOnlyAdvances

-----------------------------------------------------------------------------
(* Clock samples.                                                          *)

Sample == [offset : Int, roundTrip : Int, age : Int, trueTrip : Int]

\* Samples that are right but for their age and a rounding, and whose round trip
\* is not too long.
GoodSample ==
    {sample \in Sample :
        /\ sample.age >= 0
        /\ sample.offset \in TrueOffset - sample.age .. TrueOffset - sample.age + 1
        /\ sample.roundTrip \in 0..sample.trueTrip}

\* No packet under way was asked for after the newest request, as long as the
\* client waits; none is from the future; and a call that succeeded has samples.
ClockInv ==
    /\ now \in Nat /\ sendTime \in Nat /\ sendTime <= now
    /\ requests \subseteq Nat
    /\ \A clientTime \in requests : clientTime <= now
    /\ answers \subseteq [serverTime : Int, asked : Nat]
    /\ \A answer \in answers :
            answer.serverTime <= now + TrueOffset /\ answer.asked <= now
    /\ netPc = "await" =>
            /\ \A clientTime \in requests : clientTime <= sendTime
            /\ \A answer \in answers : answer.asked <= sendTime
    /\ samples \in Seq(GoodSample)
    /\ syncRound \in 0..SYNC_ROUNDS - 1
    /\ netPc = "synced" => samples # <<>>

\* Half of an integer, cut off toward zero.
LEMMA HalfFacts ==
    ASSUME NEW a \in Int
    PROVE  /\ Quotient(a, 2) \in Int
           /\ a >= 0 => 2 * Quotient(a, 2) = a \/ 2 * Quotient(a, 2) = a - 1
           /\ a < 0 => 2 * Quotient(a, 2) = a \/ 2 * Quotient(a, 2) = a + 1
    BY DEF Quotient

\* What SyncClock computes from an answer is the server's time minus the time
\* at which it is read, or one more: the round trip cancels out.
LEMMA ClockOffsetFacts ==
    ASSUME NEW serverTime \in Int, now \in Nat, sendTime \in Nat, sendTime <= now
    PROVE  ClockOffset(serverTime) \in serverTime - now .. serverTime - now + 1
  <1> DEFINE half == Quotient(now - sendTime, 2)
             sum == (serverTime - sendTime - half) + (serverTime - now - half)
             exact == serverTime - now
  <1>1. half \in Int /\ \/ 2 * half = now - sendTime
                        \/ 2 * half = now - sendTime - 1
    BY HalfFacts
  <1> HIDE DEF half
  <1>2. sum \in Int /\ (sum = 2 * exact \/ sum = 2 * exact + 1)
    BY <1>1
  <1> HIDE DEF sum
  <1>3. Quotient(sum, 2) \in serverTime - now .. serverTime - now + 1
    BY <1>2, HalfFacts
  <1>4. QED
    BY <1>3 DEF ClockOffset, sum, half

\* The end of a round with good samples keeps the invariant.
LEMMA NextRoundKeeps ==
    ASSUME ClockInv, netPc = "await", NEW collected \in Seq(GoodSample),
           NextRound(collected), answers' \subseteq answers
    PROVE  ClockInv'
  <1>1. CASE syncRound + 1 = SYNC_ROUNDS /\ collected = <<>>
    <2>1. /\ now' = now /\ sendTime' = 0 /\ requests' = requests
          /\ samples' = <<>> /\ netPc' = "sync" /\ syncRound' = 0
      BY <1>1 DEF NextRound, CallFails
    <2>2. QED
      BY <2>1, ClockSyncAssumption DEF ClockInv
  <1>2. CASE ~(syncRound + 1 = SYNC_ROUNDS /\ collected = <<>>)
    <2>1. /\ now' = now /\ sendTime' = sendTime /\ requests' = requests
          /\ samples' = collected
          /\ netPc' = IF syncRound + 1 < SYNC_ROUNDS THEN "sync" ELSE "synced"
          /\ syncRound' = (syncRound + 1) % SYNC_ROUNDS
      BY <1>2 DEF NextRound
    <2>2. SYNC_ROUNDS \in Nat \ {0} /\ syncRound \in 0..SYNC_ROUNDS - 1
      BY ClockSyncAssumption DEF ClockInv
    <2>3. syncRound' \in 0..SYNC_ROUNDS - 1
      BY <2>1, <2>2
    <2>4. netPc' = "synced" => samples' # <<>>
      BY <1>2, <2>1, <2>2
    <2>5. netPc' # "await"
      BY <2>1
    <2>6. QED
      BY <2>1, <2>3, <2>4, <2>5 DEF ClockInv
  <1>3. QED
    BY <1>1, <1>2

\* Every step of the client, the server and time keeps it.
LEMMA ClockStepKeeps ==
    ASSUME ClockInv, SyncClock \/ StartGame \/ Tick \/ HandleClockSync
    PROVE  ClockInv'
  <1>0. TrueOffset \in Int /\ TrueOffset' = TrueOffset
    BY ClockSyncAssumption DEF TrueOffset
  <1>1. CASE SendClock
    <2>1. /\ now \in Nat /\ now' = now /\ sendTime' = now /\ answers' = answers
          /\ requests' \subseteq requests \cup {now} /\ samples' = samples
          /\ syncRound' = syncRound /\ netPc' = "await"
      BY <1>1 DEF SendClock, RequestTime, ClockInv
    <2>2. QED
      BY <2>1 DEF ClockInv
  <1>2. CASE ClockSendFails \/ SyncNotConnected \/ NoClock
    <2>1. CallFails /\ answers' = answers
      BY <1>2 DEF ClockSendFails, SyncNotConnected, NoClock
    <2>2. QED
      BY <2>1, ClockSyncAssumption DEF CallFails, ClockInv
  <1>3. CASE ReceiveClock
    <2>1. PICK answer \in answers :
                /\ NextRound(Append(samples,
                        [offset |-> ClockOffset(answer.serverTime),
                         roundTrip |-> now - sendTime,
                         age |-> now + TrueOffset - answer.serverTime,
                         trueTrip |-> now - answer.asked]))
                /\ answers' \in {answers, answers \ {answer}}
      BY <1>3 DEF ReceiveClock
    <2> DEFINE sample == [offset |-> ClockOffset(answer.serverTime),
                          roundTrip |-> now - sendTime,
                          age |-> now + TrueOffset - answer.serverTime,
                          trueTrip |-> now - answer.asked]
    <2>2. /\ netPc = "await" /\ now \in Nat /\ sendTime \in Nat
          /\ sendTime <= now /\ answer.asked \in Nat /\ answer.asked <= sendTime
          /\ answer.serverTime \in Int
          /\ answer.serverTime <= now + TrueOffset /\ TrueOffset \in Int
      BY <1>0, <1>3 DEF ReceiveClock, ClockInv
    <2>3. ClockOffset(answer.serverTime)
                \in answer.serverTime - now .. answer.serverTime - now + 1
      BY <2>2, ClockOffsetFacts
    <2>4. sample \in GoodSample
      BY <2>2, <2>3 DEF GoodSample, Sample
    <2>5. Append(samples, sample) \in Seq(GoodSample)
      BY <2>4 DEF ClockInv
    <2>6. QED
      BY <2>1, <2>2, <2>5, NextRoundKeeps
  <1>4. CASE ClockTimeout
    BY <1>4, NextRoundKeeps DEF ClockTimeout, ClockInv
  <1>5. CASE StartGame
    BY <1>5 DEF StartGame, ClockInv
  <1>6. CASE Tick
    BY <1>0, <1>6 DEF Tick, callVars, ClockInv
  <1>7. CASE HandleClockSync
    <2>1. PICK clientTime \in requests :
            /\ requests' = requests \ {clientTime}
            /\ answers' = answers \cup
                    {[serverTime |-> now + TrueOffset, asked |-> clientTime]}
      BY <1>7 DEF HandleClockSync
    <2>2. UNCHANGED <<netPc, now, sendTime, samples, syncRound>>
      BY <1>7 DEF HandleClockSync, callVars
    <2>3. QED
      BY <1>0, <2>1, <2>2 DEF ClockInv
  <1>8. QED
    BY <1>1, <1>2, <1>3, <1>4, <1>5, <1>6, <1>7 DEF SyncClock

\* The invariant of the clock rounds, whatever the offset of the clocks.
THEOREM ClockInvariant == Spec => []ClockInv
  <1>1. Init => ClockInv
    BY ClockSyncAssumption DEF Init, ClockInit, ClockInv, GoodSample
  <1>2. ClockInv /\ [Next]_vars => ClockInv'
    <2> SUFFICES ASSUME ClockInv, [Next]_vars PROVE ClockInv'
      OBVIOUS
    <2>1. CASE Synchronize \/ Elsewhere
      BY <2>1, ClockStepKeeps DEF Synchronize, Elsewhere
    <2>2. CASE ~(Synchronize \/ Elsewhere)
      <3>1. /\ UNCHANGED clockVars
            /\ netPc' = "await" => netPc = "await"
            /\ netPc' = "synced" => netPc = "synced"
        BY <2>2 DEF Next, vars, UI, PressKey, CloseWindow, UpdateDisconnected,
                    UpdateConnected, Drain, DrainEnds, Network, Establish,
                    SendFrame, SkipFrame, Receive, Quit, netVars
      <3>2. QED
        BY <3>1 DEF clockVars, callVars, ClockInv
    <2>3. QED
      BY <2>1, <2>2
  <1>3. QED
    BY <1>1, <1>2, PTL DEF Spec

\* No round trip is measured too long, for any number of rounds, any offset of
\* the clocks and however late, often or out of order the answers come.
THEOREM RoundTripsNotOverstated == Spec => []RoundTripNotOverstated
  <1>1. ClockInv => RoundTripNotOverstated
    BY DEF ClockInv, GoodSample, Sample, RoundTripNotOverstated
  <1>2. QED
    BY <1>1, ClockInvariant, PTL

\* Each sample that SyncClock averages is behind the true offset by the age of
\* its answer, up to the rounding.
SamplesAreAged ==
    \A i \in DOMAIN samples :
        /\ samples[i].age >= 0
        /\ samples[i].offset - (TrueOffset - samples[i].age) \in 0..1

\* The rounding aside, only the age of an answer falsifies a sample.
THEOREM SamplesAged == Spec => []SamplesAreAged
  <1>1. ClockInv => SamplesAreAged
    <2> SUFFICES ASSUME ClockInv, NEW i \in DOMAIN samples
                 PROVE  /\ samples[i].age >= 0
                        /\ samples[i].offset - (TrueOffset - samples[i].age)
                                \in 0..1
      BY DEF SamplesAreAged
    <2>1. samples[i] \in GoodSample /\ TrueOffset \in Int
      BY ClockSyncAssumption DEF ClockInv, TrueOffset
    <2>2. QED
      BY <2>1 DEF GoodSample, Sample
  <1>2. QED
    BY <1>1, ClockInvariant, PTL

-----------------------------------------------------------------------------
(* Their average.                                                          *)

\* The sums are what the rounds of the loop make of them.
LEMMA SumsIs ==
    ASSUME NEW values \in Seq(Int)
    PROVE  /\ Sums(values)[0] = 0
           /\ \A k \in 1..Len(values) : Sums(values)[k] = Sums(values)[k - 1] + values[k]
  <1> DEFINE n == Len(values)
             X == Int
             base == 0
             step == [k \in 1..n |-> [total \in X |-> total + values[k]]]
  <1>1. n \in Nat /\ \A k \in 1..n : values[k] \in Int
    OBVIOUS
  <1>2. base \in X /\ step \in [1..n -> [X -> X]]
    BY <1>1
  <1>3. PICK f : Rounds(n, X, base, step, f)
    <2> HIDE DEF n, X, base, step
    <2>1. QED
      BY <1>1, <1>2, Recursion
  <1>4. f \in [0..n -> Int] /\ f[0] = 0 /\ \A k \in 1..n : f[k] = f[k - 1] + values[k]
    <2>1. \A k \in 1..n : f[k - 1] \in Int
      <3>1. \A k \in 1..n : k - 1 \in 0..n
        BY <1>1
      <3>2. f \in [0..n -> Int]
        BY <1>3 DEF Rounds
      <3> HIDE DEF n
      <3>3. QED
        BY <3>1, <3>2
    <2>2. QED
      BY <1>3, <2>1 DEF Rounds
  <1> HIDE DEF step
  <1> DEFINE Is(g) == g = [k \in 0..n |-> IF k = 0 THEN 0 ELSE g[k - 1] + values[k]]
  <1>5. Is(f)
    <2>1. \A k \in 0..n : f[k] = IF k = 0 THEN 0 ELSE f[k - 1] + values[k]
      BY <1>1, <1>4
    <2>2. QED
      BY <1>4, <2>1
  <1>6. Sums(values) = CHOOSE g : Is(g)
    BY DEF Sums
  <1> DEFINE sums == Sums(values)
  <1>7. Is(sums)
    <2> HIDE DEF Is
    <2>1. QED
      BY <1>5, <1>6
  <1> HIDE DEF sums
  <1>8. \A k \in 1..n : k \in 0..n /\ k # 0
    BY <1>1
  <1>9. sums[0] = 0 /\ \A k \in 1..n : sums[k] = sums[k - 1] + values[k]
    BY <1>1, <1>7, <1>8
  <1>10. QED
    BY <1>9 DEF sums

\* The sum of values between two bounds lies between multiples of these.
LEMMA SumBetween ==
    ASSUME NEW values \in Seq(Int), NEW low \in Int, NEW high \in Int,
           \A k \in 1..Len(values) : low <= values[k] /\ values[k] <= high
    PROVE  /\ Sums(values)[Len(values)] \in Int
           /\ Len(values) * low <= Sums(values)[Len(values)]
           /\ Sums(values)[Len(values)] <= Len(values) * high
  <1> DEFINE n == Len(values)
             sums == Sums(values)
             Between(k) == sums[k] \in Int /\ k * low <= sums[k] /\ sums[k] <= k * high
             T == {k \in 0..n : Between(k)}
  <1>1. n \in Nat /\ \A k \in 1..n : values[k] \in Int
    OBVIOUS
  <1>2. sums[0] = 0 /\ \A k \in 1..n : sums[k] = sums[k - 1] + values[k]
    BY SumsIs
  <1> HIDE DEF sums, n
  <1>3. 0 \in T
    BY <1>1, <1>2
  <1>4. ASSUME NEW k \in 0..n - 1, k \in T PROVE k + 1 \in T
    <2>1. k + 1 \in 1..n /\ k + 1 \in 0..n /\ k + 1 - 1 = k /\ k \in Int
      BY <1>1
    <2>2. sums[k + 1] = sums[k] + values[k + 1] /\ values[k + 1] \in Int
          /\ low <= values[k + 1] /\ values[k + 1] <= high
      BY <1>1, <1>2, <2>1 DEF n
    <2>3. Between(k)
      BY <1>4
    <2>4. (k + 1) * low = k * low + low /\ (k + 1) * high = k * high + high
      BY <2>1
    <2> DEFINE a == k * low
               b == k * high
    <2>5. a \in Int /\ b \in Int
      BY <2>1
    <2>6. a <= sums[k] /\ sums[k] <= b /\ sums[k] \in Int
      BY <2>3
    <2>7. (k + 1) * low = a + low /\ (k + 1) * high = b + high
      BY <2>4
    <2> HIDE DEF a, b
    <2>8. Between(k + 1)
      BY <2>2, <2>5, <2>6, <2>7
    <2> HIDE DEF Between
    <2>9. QED
      BY <2>1, <2>8
  <1>5. n \in T
    <2> HIDE DEF T
    <2>1. \A k \in 0..n - 1 : k \in T => k + 1 \in T
      BY <1>4
    <2>2. \A k \in 0..n : k \in T
      BY <1>1, <1>3, <2>1, Induction
    <2>3. QED
      BY <1>1, <2>2
  <1>6. QED
    BY <1>5 DEF n, sums

\* A quotient that is cut off toward zero lies between the bounds of the exact
\* one.
LEMMA QuotientBetween ==
    ASSUME NEW n \in Nat \ {0}, NEW total \in Int, NEW low \in Int, NEW high \in Int,
           n * low <= total, total <= n * high
    PROVE  Quotient(total, n) \in low..high
  <1>1. CASE total >= 0
    <2> DEFINE q == total \div n
    <2>1. q \in Int /\ n * q <= total /\ total < n * (q + 1)
      BY <1>1
    <2> HIDE DEF q
    <2>2. low < q + 1 /\ q <= high
      <3>1. n * low < n * (q + 1) /\ n * q <= n * high
        BY <2>1
      <3>2. QED
        BY <2>1, <3>1
    <2>3. q \in low..high
      BY <2>1, <2>2
    <2>4. QED
      BY <1>1, <2>3 DEF Quotient, q
  <1>2. CASE total < 0
    <2> DEFINE q == (-total) \div n
    <2>1. q \in Int /\ n * q <= -total /\ -total < n * (q + 1)
      BY <1>2
    <2> HIDE DEF q
    <2>2. low <= -q /\ -q < high + 1
      <3>1. n * q <= n * (-low) /\ n * (-high) < n * (q + 1)
        BY <2>1
      <3>2. q <= -low /\ -high < q + 1
        BY <2>1, <3>1
      <3>3. QED
        BY <2>1, <3>2
    <2>3. -q \in low..high
      BY <2>1, <2>2
    <2>4. QED
      BY <1>2, <2>3 DEF Quotient, q
  <1>3. QED
    BY <1>1, <1>2
\* Some sample is the oldest.
LEMMA OldestOf ==
    ASSUME NEW n \in Nat \ {0}, NEW list, \A i \in 1..n : list[i].age \in Nat
    PROVE  \E i \in 1..n : \A j \in 1..n : list[j].age <= list[i].age
  <1> DEFINE Oldest(k) == \E i \in 1..k : \A j \in 1..k : list[j].age <= list[i].age
             T == {k \in 0..n - 1 : Oldest(k + 1)}
  <1>1. 0 \in T
    BY 1 \in 1..1, \A j \in 1..1 : j = 1
  <1>2. ASSUME NEW k \in 0..n - 1 - 1, k \in T PROVE k + 1 \in T
    <2>1. PICK i \in 1..k + 1 : \A j \in 1..k + 1 : list[j].age <= list[i].age
      BY <1>2
    <2>2. /\ k + 2 \in 1..n /\ i \in 1..n /\ i \in 1..k + 2 /\ k + 2 \in 1..k + 2
          /\ \A j \in 1..k + 2 : j \in 1..k + 1 \/ j = k + 2
          /\ \A j \in 1..k + 2 : j \in 1..n
      OBVIOUS
    <2>3. CASE list[k + 2].age <= list[i].age
      BY <2>1, <2>2, <2>3
    <2>4. CASE ~(list[k + 2].age <= list[i].age)
      BY <2>1, <2>2, <2>4
    <2>5. Oldest(k + 2)
      BY <2>3, <2>4
    <2>6. k + 1 + 1 = k + 2 /\ k + 1 \in 0..n - 1
      OBVIOUS
    <2> HIDE DEF Oldest
    <2>7. QED
      BY <2>5, <2>6
  <1>3. n - 1 \in T
    <2> HIDE DEF T
    <2>1. \A k \in 0..n - 1 - 1 : k \in T => k + 1 \in T
      BY <1>2
    <2>2. n - 1 \in Nat /\ n - 1 \in 0..n - 1
      OBVIOUS
    <2>3. QED
      BY <1>1, <2>1, <2>2, Induction
  <1>4. n - 1 + 1 = n
    OBVIOUS
  <1>5. Oldest(n)
    BY <1>3, <1>4
  <1>6. QED
    BY <1>5

\* Samples that are aged, each in its own measure, average to an offset within
\* the age of the oldest answer.
LEMMA AverageWithinAge ==
    ASSUME SamplesAreAged, NEW S, samples \in Seq(S), samples # <<>>,
           \A sample \in S : sample.offset \in Int /\ sample.age \in Int
    PROVE  \E i \in DOMAIN samples :
              m_serverClockOffset \in TrueOffset - samples[i].age .. TrueOffset + 1
  <1> DEFINE n == Len(samples)
             offset == [i \in DOMAIN samples |-> samples[i].offset]
             Ages == {samples[i].age : i \in DOMAIN samples}
  <1>1. /\ n \in Nat \ {0} /\ DOMAIN samples = 1..n /\ 1 \in 1..n
        /\ \A i \in 1..n : samples[i] \in S
    OBVIOUS
  <1>2. \A i \in 1..n : samples[i].offset \in Int /\ samples[i].age \in Nat
    BY <1>1 DEF SamplesAreAged
  <1>3. offset \in Seq(Int) /\ Len(offset) = n
        /\ \A i \in 1..n : offset[i] = samples[i].offset
    BY <1>1, <1>2
  <1>4. TrueOffset \in Int
    BY ClockSyncAssumption DEF TrueOffset
  <1>5. PICK i \in 1..n : \A j \in 1..n : samples[j].age <= samples[i].age
    BY <1>1, <1>2, OldestOf
  <1> DEFINE low == TrueOffset - samples[i].age
             high == TrueOffset + 1
  <1>6. low \in Int /\ high \in Int
    BY <1>2, <1>4
  <1>7. \A k \in 1..Len(offset) : low <= offset[k] /\ offset[k] <= high
    <2> SUFFICES ASSUME NEW k \in 1..n
                 PROVE  low <= samples[k].offset /\ samples[k].offset <= high
      BY <1>3
    <2>1. samples[k].age <= samples[i].age
      BY <1>5
    <2>2. /\ samples[k].age \in Nat /\ samples[i].age \in Nat
          /\ samples[k].offset \in Int
      BY <1>2
    <2>3. samples[k].offset - (TrueOffset - samples[k].age) \in 0..1
      BY <1>1 DEF SamplesAreAged
    <2> DEFINE age == samples[k].age
               oldest == samples[i].age
               value == samples[k].offset
    <2>4. /\ age \in Nat /\ oldest \in Nat /\ value \in Int /\ age <= oldest
          /\ value - (TrueOffset - age) \in 0..1
      BY <2>1, <2>2, <2>3
    <2>5. low = TrueOffset - oldest /\ high = TrueOffset + 1
      OBVIOUS
    <2> HIDE DEF age, oldest, value, low, high
    <2>6. low <= value /\ value <= high
      BY <1>4, <2>4, <2>5
    <2>7. QED
      BY <2>6 DEF value
  <1>8. Average(offset) \in low..high
    <2> DEFINE total == Sums(offset)[Len(offset)]
    <2> HIDE DEF offset, low, high
    <2>1. total \in Int /\ Len(offset) * low <= total /\ total <= Len(offset) * high
      BY <1>3, <1>6, <1>7, SumBetween
    <2>2. Len(offset) \in Nat \ {0}
      BY <1>1, <1>3
    <2> HIDE DEF total
    <2>3. Quotient(total, Len(offset)) \in low..high
      BY <1>6, <2>1, <2>2, QuotientBetween
    <2>4. QED
      BY <2>3 DEF Average, total
  <1>9. m_serverClockOffset \in low..high
    BY <1>8 DEF m_serverClockOffset
  <1>10. QED
    BY <1>1, <1>9

\* The client never takes the server's clock to be ahead by more than the
\* rounding, nor behind by more than the age of the oldest answer it averaged,
\* for any number of rounds, any offset of the clocks and however late, often or
\* out of order the answers come.
THEOREM OffsetAged == Spec => []OffsetWithinAge
  <1>1. ClockInv /\ SamplesAreAged => OffsetWithinAge
    <2> SUFFICES ASSUME ClockInv, SamplesAreAged, netPc = "synced"
                 PROVE  \E i \in DOMAIN samples :
                            m_serverClockOffset
                                \in TrueOffset - samples[i].age .. TrueOffset + 1
      BY DEF OffsetWithinAge
    <2>1. samples \in Seq(GoodSample) /\ samples # <<>>
      BY DEF ClockInv
    <2>2. \A sample \in GoodSample : sample.offset \in Int /\ sample.age \in Int
      BY DEF GoodSample, Sample
    <2>3. QED
      BY <2>1, <2>2, AverageWithinAge
  <1>2. QED
    BY <1>1, ClockInvariant, SamplesAged, PTL
=============================================================================
