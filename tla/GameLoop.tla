------------------------------ MODULE GameLoop ------------------------------
(***************************************************************************)
(* The graphical client (Game.cpp, Rocket/main.cpp): the UI thread pumps   *)
(* window messages and calls Update once per frame, the networking thread  *)
(* runs NetworkLoop.  They share g_running and m_connectionState, and hand *)
(* each other the player's input (OutgoingState) and the states of the     *)
(* game (IncomingStates).  What SyncClock does is in ClockSync.tla.        *)
(*                                                                         *)
(* The two queues are taken as the atomic queues that NetworkQueue.tla is  *)
(* shown to implement.  When the UI loop ends, Game is destroyed, m_client *)
(* before the networking thread is joined: what that thread does from then *)
(* on is undefined, and the model ends there.                              *)
(***************************************************************************)
EXTENDS ClockSync

CONSTANTS
    Keyboard,   \* keyboard states
    NoKeys,     \* no key is pressed
    QueueBound, \* places of a queue (255)
    MaxStates   \* bound of the model: game states the server sends

ASSUME GameLoopAssumption ==
    /\ NoKeys \in Keyboard
    /\ QueueBound \in Nat \ {0}
    /\ MaxStates \in Nat

VARIABLES
    uiPc,               \* "pump", "drain" (in Update), or "destroyed"
    g_running,
    g_keyboard,
    OutgoingState,      \* inputs on their way to the networking thread
    IncomingStates,     \* numbers of game states on their way to the UI
    scene,              \* the game state in m_scene.players, 0 if it is empty
    sent,               \* the keyboard in the last frame
    handled             \* the game states handled, which number them

uiVars == <<uiPc, g_keyboard, scene>>
netVars == <<netPc, m_connectionState, clockVars, sent, handled>>
queueVars == <<OutgoingState, IncomingStates>>
vars == <<uiVars, netVars, g_running, queueVars>>

Init ==
    /\ uiPc = "pump" /\ netPc = "establish"
    /\ g_running = TRUE
    /\ m_connectionState = "DISCONNECTED"
    /\ ClockInit
    /\ g_keyboard = NoKeys /\ sent = NoKeys
    /\ OutgoingState = <<>> /\ IncomingStates = <<>>
    /\ scene = 0 /\ handled = 0

\* Mutated form: one item more than there is room for.
PushBeyond(queue, item) ==
    IF Len(queue) <= QueueBound THEN Append(queue, item) ELSE queue
\* push: a full queue drops the item, because no caller looks at the result.
Push(queue, item) ==
    IF Len(queue) < QueueBound THEN Append(queue, item) ELSE queue

-----------------------------------------------------------------------------
(* The UI thread. *)

PressKey(keyboard) ==
    /\ uiPc = "pump"
    /\ g_keyboard # keyboard
    /\ g_keyboard' = keyboard
    /\ UNCHANGED <<uiPc, scene, netVars, g_running, queueVars>>

\* Escape, or the window is closed.
CloseWindow ==
    /\ uiPc = "pump"
    /\ g_running
    /\ g_running' = FALSE
    /\ UNCHANGED <<uiVars, netVars, queueVars>>

\* while (g_running); behind it wWinMain returns.
NextFrame == uiPc' = IF g_running THEN "pump" ELSE "destroyed"

UpdateDisconnected ==
    /\ uiPc = "pump"
    /\ m_connectionState # "CONNECTED"
    /\ scene' = 0
    /\ NextFrame
    /\ UNCHANGED <<g_keyboard, netVars, g_running, queueVars>>

\* Mutated form: the input is sent only while no key is pressed.
QueueIdleInput ==
    OutgoingState' = IF g_keyboard = NoKeys
                     THEN Push(OutgoingState, g_keyboard) ELSE OutgoingState
QueueInput == OutgoingState' = Push(OutgoingState, g_keyboard)

UpdateConnected ==
    /\ uiPc = "pump"
    /\ m_connectionState = "CONNECTED"
    /\ QueueInput
    /\ uiPc' = "drain"
    /\ UNCHANGED <<g_keyboard, scene, netVars, g_running, IncomingStates>>

\* One round of the loop that pops the states; each one replaces the last.
\* Mutated forms: the newest one is taken first, or the others are dropped.
ShowNewestFirst ==
    /\ scene' = Last(IncomingStates)
    /\ IncomingStates' = Front(IncomingStates)
ShowOnlyOldest ==
    /\ scene' = Head(IncomingStates)
    /\ IncomingStates' = <<>>
ShowOldest ==
    /\ scene' = Head(IncomingStates)
    /\ IncomingStates' = Tail(IncomingStates)

Drain ==
    /\ uiPc = "drain"
    /\ IncomingStates # <<>>
    /\ ShowOldest
    /\ UNCHANGED <<uiPc, g_keyboard, netVars, g_running, OutgoingState>>

DrainEnds ==
    /\ uiPc = "drain"
    /\ IncomingStates = <<>>
    /\ NextFrame
    /\ UNCHANGED <<g_keyboard, scene, netVars, g_running, queueVars>>

UI == UpdateDisconnected \/ UpdateConnected \/ Drain \/ DrainEnds

-----------------------------------------------------------------------------
(* The networking thread.  Client.tla tells what EstablishConnection does; *)
(* here it succeeds or fails.  Its loop, as that of SyncClock, asks a      *)
(* stop_token of which nobody requests a stop.                             *)

Alive == uiPc # "destroyed"

Establish ==
    /\ Alive /\ netPc = "establish"
    /\ \/ m_connectionState' \in {"CONNECTING", "DISCONNECTED"} /\ UNCHANGED netPc
       \/ m_connectionState' = "CONNECTED" /\ netPc' = "sync"
    /\ UNCHANGED <<clockVars, sent, handled, uiVars, g_running, queueVars>>

\* A failed Send leaves DISCONNECTED, and then no call succeeds any more.
Synchronize ==
    /\ Alive
    /\ SyncClock \/ StartGame
    /\ UNCHANGED <<sent, handled, uiVars, g_running, queueVars>>

\* Not the thread: time goes by, and the server answers.
Elsewhere ==
    /\ Alive
    /\ Tick \/ HandleClockSync
    /\ UNCHANGED <<sent, handled, uiVars, g_running, queueVars>>

\* A round of ExecuteGame begins, and the sixtieth of a second is over.
SendFrame ==
    /\ Alive /\ netPc = "game" /\ g_running
    /\ IF OutgoingState # <<>>
       THEN sent' = Head(OutgoingState) /\ OutgoingState' = Tail(OutgoingState)
       ELSE UNCHANGED <<sent, OutgoingState>>
    /\ netPc' = "receive"
    /\ UNCHANGED <<m_connectionState, clockVars, handled, uiVars, g_running,
                   IncomingStates>>

\* A round begins, and it is not.
SkipFrame ==
    /\ Alive /\ netPc = "game" /\ g_running
    /\ netPc' = "receive"
    /\ UNCHANGED <<m_connectionState, clockVars, sent, handled, uiVars, g_running,
                   queueVars>>

ReceiveGameState ==
    /\ handled < MaxStates
    /\ handled' = handled + 1
    /\ IncomingStates' = Push(IncomingStates, handled')
    /\ UNCHANGED g_running

ReceiveDisconnect ==
    /\ g_running' = FALSE
    /\ UNCHANGED <<handled, IncomingStates>>

ReceiveNothing == UNCHANGED <<handled, IncomingStates, g_running>>

\* The rest of the round.  A DISCONNECT and 100 idle seconds do the same.
Receive ==
    /\ Alive /\ netPc = "receive"
    /\ ReceiveGameState \/ ReceiveDisconnect \/ ReceiveNothing
    /\ netPc' = "game"
    /\ UNCHANGED <<m_connectionState, clockVars, sent, uiVars, OutgoingState>>

\* QuitGame says good-bye.
Quit ==
    /\ Alive /\ netPc = "game" /\ ~g_running
    /\ netPc' = "over"
    /\ UNCHANGED <<m_connectionState, clockVars, sent, handled, uiVars, g_running,
                   queueVars>>

Network ==
    Establish \/ Synchronize \/ SendFrame \/ SkipFrame \/ Receive \/ Quit

-----------------------------------------------------------------------------

Next ==
    \/ \E keyboard \in Keyboard : PressKey(keyboard)
    \/ CloseWindow
    \/ UI
    \/ Network
    \/ Elsewhere

Spec == Init /\ [][Next]_vars

\* Both threads are scheduled.  SendFrame is due again and again, whatever
\* rounds are skipped in between: time goes on.
FairSpec == Spec /\ WF_vars(UI) /\ WF_vars(Network) /\ SF_vars(SendFrame)

-----------------------------------------------------------------------------
(* Properties. *)

\* Every variable keeps its type, and no queue holds more than it has room for.
TypeOK ==
    /\ uiPc \in {"pump", "drain", "destroyed"}
    /\ netPc \in {"establish", "sync", "await", "synced", "game", "receive", "over"}
    /\ g_running \in BOOLEAN
    /\ m_connectionState \in {"DISCONNECTED", "CONNECTING", "CONNECTED"}
    /\ g_keyboard \in Keyboard /\ sent \in Keyboard
    /\ OutgoingState \in Seq(Keyboard) /\ Len(OutgoingState) <= QueueBound
    /\ IncomingStates \in Seq(1..MaxStates) /\ Len(IncomingStates) <= QueueBound
    /\ scene \in 0..MaxStates /\ handled \in 0..MaxStates

\* The UI never goes back to a state that was handled before the one it shows,
\* although states are dropped when the UI is behind and the scene is emptied
\* without a connection.  (The order is that of HandleGameState, which takes
\* the packets as they arrive.)
SceneOnlyAdvances == [][scene' = 0 \/ scene' >= scene]_vars

\* The keys the player holds in the end are what the server is told in the
\* end, although the queue may be full of older inputs when they are pressed
\* and drops the newest ones.
KeyboardGetsThrough ==
    \A keyboard \in Keyboard :
        <>[](g_keyboard = keyboard /\ g_running /\ netPc \in {"game", "receive"})
            => <>[](sent = keyboard)

\* A game state that found room in the queue is shown, or a newer one is,
\* unless the program ends.
StatesAreShown ==
    \A number \in 1..MaxStates :
        (number \in ToSet(IncomingStates)) ~> (scene >= number \/ ~Alive)
=============================================================================
