--------------------------- MODULE ServerLifecycle ---------------------------
(***************************************************************************)
(* How a server accepts sessions, and how it stops.                        *)
(*                                                                         *)
(*   - the network thread runs the coroutine do_accept (acc);              *)
(*   - every session has a thread of its own, started by Session::run;     *)
(*   - the thread that calls UsbipServer::stop, which stops the server,    *)
(*     joins its threads and destroys it (stopPc);                         *)
(*   - the USB client event thread, which stop joins (eventThread).        *)
(*                                                                         *)
(* The list of sessions holds weak pointers, in the order of acceptance,   *)
(* which is that of the sessions' numbers: a set of them says as much.     *)
(* session_list_mutex makes each access to it one step.  Nothing keeps a   *)
(* session's thread joined: it detaches itself and uses the server by      *)
(* reference to its end, and so does the destructor of a Session that has  *)
(* a transfer_channel, which is an object of the server's io_context.      *)
(***************************************************************************)
EXTENDS Integers

CONSTANT MaxSession    \* bound: how many connections arrive

ASSUME ServerAssumption == MaxSession \in Nat

Session == 1 .. MaxSession

VARIABLES
  acc,          \* do_accept: where, with session number accepted + 1
  accepted,     \* the number of sessions do_accept is done with
  list,         \* sessions
  pc,           \* the threads of the sessions; "lost" for a session that never ran
  channels,     \* the sessions that have a transfer_channel
  assigned,     \* the sessions whose run_thread holds their thread
  told,         \* the sessions immediately_stop was called for
  ioStopped,    \* was asio_io_context stopped?
  shouldStop,   \* should_stop
  stopPc,       \* UsbipServer::stop
  exitFlag,     \* should_exit_client_event_thread
  eventThread,  \* does the event thread run?
  fault         \* how the program left defined behaviour, "none" while it has not

accVars  == <<acc, accepted>>
stopVars == <<told, ioStopped, shouldStop, stopPc, exitFlag>>
vars == <<acc, accepted, list, pc, channels, assigned, told, ioStopped, shouldStop,
          stopPc, exitFlag, eventThread, fault>>

AccPc  == {"accepting", "accepted", "listed", "starting", "assign", "ended", "threw"}
Pc     == {"new", "serving", "leaving", "erased", "swept", "detached", "gone", "lost"}
StopPc == {"no", "waiting", "emptied", "flagging", "joining", "returned", "exiting",
           "destroying", "destroyed"}

Init ==
  /\ acc = "accepting" /\ accepted = 0
  /\ list = {}
  /\ pc = [s \in Session |-> "new"] /\ channels = {} /\ assigned = {}
  /\ told = {} /\ ioStopped = FALSE /\ shouldStop = FALSE
  /\ stopPc = "no" /\ exitFlag = FALSE
  /\ eventThread = TRUE
  /\ fault = "none"

Current == accepted + 1

Goto(s, p) == pc' = [pc EXCEPT ![s] = p]
StopGoto(from, to) == stopPc = from /\ stopPc' = to

\* An exception leaves do_accept: it is logged, the coroutine is over, and the session
\* with no thread is destroyed.  Its weak pointer stays in the list.
AcceptThrows == acc' = "threw" /\ Goto(Current, "lost")

\* The pass of a session's thread over the list: it removes the expired sessions before
\* its own, and its own.
Expired(s) == pc[s] \in {"lost", "gone"}
Without(s) == {t \in list : t # s /\ ~(t < s /\ Expired(t))}

\* What a session's thread meets that uses the server.
ServerFault == IF stopPc = "destroyed" THEN "use_after_free" ELSE "none"

\* What is left of session s uses the server: its thread looks the device up, moves it,
\* builds the channel and gives the device back, takes s off the list and calls
\* on_session_exit; ~Session destroys the channel, which unregisters it from the io_context.
UsesServer(s) ==
  \/ pc[s] \in {"serving", "leaving", "erased"}
  \/ pc[s] \in {"swept", "detached"} /\ s \in channels

-----------------------------------------------------------------------------
(* Mutants: what a definition below would be with a plausible mistake in   *)
(* the code; the checks put each in its place and expect a property to     *)
(* fail.                                                                   *)

\* stop does not join the network thread.
JoinNetworkNot ==
  /\ StopGoto("joining", "returned")
  /\ UNCHANGED <<accVars, list, pc, channels, assigned, told, ioStopped, shouldStop, exitFlag,
                 eventThread, fault>>

\* A session's thread starts before the session is in the list.
StartUnlisted ==
  /\ acc = "accepted"
  /\ acc' = "assign" /\ Goto(Current, "serving")
  /\ UNCHANGED <<accepted, list, channels, assigned, stopVars, eventThread, fault>>

\* stop does not wait for the sessions.
WaitNot ==
  /\ StopGoto("waiting", "emptied")
  /\ UNCHANGED <<accVars, list, pc, channels, assigned, told, ioStopped, shouldStop, exitFlag,
                 eventThread, fault>>

\* The thread is not kept in run_thread.
AssignNot ==
  /\ acc = "assign"
  /\ accepted' = accepted + 1
  /\ acc' = IF shouldStop THEN "ended" ELSE "accepting"
  /\ UNCHANGED <<list, pc, channels, assigned, stopVars, eventThread, fault>>

\* A session's thread erases the expired sessions but not its own.
EraseExpiredOnly(s) ==
  /\ pc[s] = "leaving" /\ ServerFault = "none"
  /\ list' = {t \in list : ~Expired(t)}
  /\ Goto(s, "erased")
  /\ UNCHANGED <<accVars, channels, assigned, stopVars, eventThread, fault>>

-----------------------------------------------------------------------------
(* The network thread.  A connection error is logged and accepted again;   *)
(* operation_aborted needs a closed acceptor, which outlives the run.      *)

Accept ==
  /\ acc = "accepting" /\ ~ioStopped
  /\ accepted < MaxSession
  /\ acc' = "accepted"
  /\ UNCHANGED <<accepted, list, pc, channels, assigned, stopVars, eventThread, fault>>

AddToList ==
  /\ acc = "accepted"
  /\ list' = list \cup {Current}
  /\ acc' = "listed"
  /\ UNCHANGED <<accepted, pc, channels, assigned, stopVars, eventThread, fault>>

\* remote_endpoint() throws when the peer has gone already.
RemoteEndpoint ==
  /\ acc = "listed"
  /\ \/ acc' = "starting" /\ UNCHANGED pc
     \/ AcceptThrows
  /\ UNCHANGED <<accepted, list, channels, assigned, stopVars, eventThread, fault>>

\* Session::run: the thread runs before std::thread's constructor returns, or the
\* constructor throws for want of memory.
StartThread ==
  /\ acc = "starting"
  /\ \/ acc' = "assign" /\ Goto(Current, "serving")
     \/ AcceptThrows
  /\ UNCHANGED <<accepted, list, channels, assigned, stopVars, eventThread, fault>>

\* The thread is moved into run_thread, and do_accept is back at the top of its loop.
AssignThread ==
  /\ acc = "assign"
  /\ assigned' = assigned \cup {Current}
  /\ accepted' = accepted + 1
  /\ acc' = IF shouldStop THEN "ended" ELSE "accepting"
  /\ UNCHANGED <<list, pc, channels, stopVars, eventThread, fault>>

-----------------------------------------------------------------------------
(* The sessions' threads.                                                  *)

\* parse_op moves the device the client wants to the used ones, and transfer_loop makes the
\* channel in the server's io_context.
Import(s) ==
  /\ pc[s] = "serving" /\ ServerFault = "none"
  /\ s \notin channels
  /\ channels' = channels \cup {s}
  /\ UNCHANGED <<accVars, list, pc, assigned, stopVars, eventThread, fault>>

\* session_io_context has no work any more: the client left, or the session was stopped.
\* A session that imported a device gives it back to the server before.
ServeEnds(s) ==
  /\ pc[s] = "serving" /\ (s \in channels => ServerFault = "none")
  /\ Goto(s, "leaving")
  /\ UNCHANGED <<accVars, list, channels, assigned, stopVars, eventThread, fault>>

Erase(s) ==
  /\ pc[s] = "leaving" /\ ServerFault = "none"
  /\ list' = Without(s)
  /\ Goto(s, "erased")
  /\ UNCHANGED <<accVars, channels, assigned, stopVars, eventThread, fault>>

\* Esp32Server::on_session_exit
OnSessionExit(s) ==
  /\ pc[s] = "erased" /\ ServerFault = "none"
  /\ Goto(s, "swept")
  /\ UNCHANGED <<accVars, list, channels, assigned, stopVars, eventThread, fault>>

\* run_thread.detach() on a thread that was not assigned yet throws, out of the thread's
\* function.
Detach(s) ==
  /\ pc[s] = "swept"
  /\ IF s \in assigned THEN Goto(s, "detached") /\ UNCHANGED fault
                       ELSE fault' = "terminate" /\ UNCHANGED pc
  /\ UNCHANGED <<accVars, list, channels, assigned, stopVars, eventThread>>

\* The thread's function object goes with the thread, and with it the last pointer to the
\* Session.
Release(s) ==
  /\ pc[s] = "detached" /\ (s \in channels => ServerFault = "none")
  /\ Goto(s, "gone")
  /\ UNCHANGED <<accVars, list, channels, assigned, stopVars, eventThread, fault>>

\* A session that serves does so when its client sends it something.
UseAfterFree(s) ==
  /\ UsesServer(s) /\ pc[s] # "swept" /\ ServerFault # "none"
  /\ fault' = ServerFault
  /\ UNCHANGED <<accVars, list, pc, channels, assigned, stopVars, eventThread>>

-----------------------------------------------------------------------------
(* The thread that stops the server.                                       *)

\* Server::stop: one pass over the list under the lock.
TellSessions ==
  /\ StopGoto("no", "waiting")
  /\ told' = {s \in list : ~Expired(s)}
  /\ UNCHANGED <<accVars, list, pc, channels, assigned, ioStopped, shouldStop, exitFlag,
                 eventThread, fault>>

\* The wait, polling once a second.
SeesEmpty ==
  /\ StopGoto("waiting", "emptied")
  /\ list = {}
  /\ UNCHANGED <<accVars, list, pc, channels, assigned, told, ioStopped, shouldStop, exitFlag,
                 eventThread, fault>>

StopIo ==
  /\ StopGoto("emptied", "flagging")
  /\ ioStopped' = TRUE
  /\ UNCHANGED <<accVars, list, pc, channels, assigned, told, shouldStop, exitFlag, eventThread,
                 fault>>

SetShouldStop ==
  /\ StopGoto("flagging", "joining")
  /\ shouldStop' = TRUE
  /\ UNCHANGED <<accVars, list, pc, channels, assigned, told, ioStopped, exitFlag, eventThread,
                 fault>>

\* A stopped io_context returns when the coroutine suspends or ends.
JoinNetwork ==
  /\ StopGoto("joining", "returned")
  /\ acc \in {"accepting", "ended", "threw"}
  /\ UNCHANGED <<accVars, list, pc, channels, assigned, told, ioStopped, shouldStop, exitFlag,
                 eventThread, fault>>

\* Esp32Server::stop, after Server::stop: the interfaces are released, and the event
\* thread is told to exit and woken up.
TellEvents ==
  /\ StopGoto("returned", "exiting")
  /\ exitFlag' = TRUE
  /\ UNCHANGED <<accVars, list, pc, channels, assigned, told, ioStopped, shouldStop,
                 eventThread, fault>>

JoinEvents ==
  /\ StopGoto("exiting", "destroying")
  /\ ~eventThread
  /\ UNCHANGED <<accVars, list, pc, channels, assigned, told, ioStopped, shouldStop, exitFlag,
                 eventThread, fault>>

\* UsbipServer::stop: server.reset()
Destroy ==
  /\ StopGoto("destroying", "destroyed")
  /\ UNCHANGED <<accVars, list, pc, channels, assigned, told, ioStopped, shouldStop, exitFlag,
                 eventThread, fault>>

\* The loop of the event thread sees the flag, or ends with an error or an exception.
EventThreadEnds ==
  /\ eventThread
  /\ eventThread' = FALSE
  /\ UNCHANGED <<accVars, list, pc, channels, assigned, stopVars, fault>>

-----------------------------------------------------------------------------
NetworkStep == AddToList \/ RemoteEndpoint \/ StartThread \/ AssignThread

SessionStep(s) == Erase(s) \/ OnSessionExit(s) \/ Detach(s) \/ Release(s)

StopStep ==
  \/ SeesEmpty \/ StopIo \/ SetShouldStop \/ JoinNetwork \/ TellEvents \/ JoinEvents
  \/ Destroy

\* Nothing is claimed of a program that has left defined behaviour.
Next ==
  /\ fault = "none"
  /\ \/ Accept \/ NetworkStep
     \/ \E s \in Session : Import(s) \/ ServeEnds(s) \/ SessionStep(s) \/ UseAfterFree(s)
     \/ TellSessions \/ StopStep
     \/ EventThreadEnds

Spec == Init /\ [][Next]_vars

\* All threads keep running.  A session that was told to stop has its socket closed and
\* ends; one that was not ends when its client likes.  The event thread sees its flag.
Fairness ==
  /\ WF_vars(fault = "none" /\ NetworkStep)
  /\ \A s \in Session :
       /\ WF_vars(fault = "none" /\ SessionStep(s))
       /\ WF_vars(fault = "none" /\ s \in told /\ ServeEnds(s))
  /\ WF_vars(fault = "none" /\ StopStep)
  /\ WF_vars(fault = "none" /\ exitFlag /\ EventThreadEnds)

FairSpec == Spec /\ Fairness

-----------------------------------------------------------------------------
(* Properties.                                                             *)

\* The types, and: a session that do_accept is done with has its thread in run_thread.
TypeOK ==
  /\ acc \in AccPc /\ accepted \in 0 .. MaxSession
  /\ list \subseteq Session
  /\ pc \in [Session -> Pc]
  /\ channels \subseteq Session /\ assigned = 1 .. accepted /\ told \subseteq Session
  /\ ioStopped \in BOOLEAN /\ shouldStop \in BOOLEAN
  /\ exitFlag \in BOOLEAN /\ eventThread \in BOOLEAN
  /\ stopPc \in StopPc
  /\ fault \in {"none", "terminate", "use_after_free"}

\* A session whose thread serves a client is in the list, so that stop can tell it and
\* waits for it; no sweep of another session takes it out.
ServingIsListed == \A s \in Session : pc[s] \in {"serving", "leaving"} => s \in list

\* Past its wait, stop has the server used by no session that it told to stop and that has
\* not left the list since: what uses it came too late to be told, or has left the list and
\* neither called on_session_exit nor destroyed its channel yet.
ReturnsLate ==
  stopPc \notin {"no", "waiting"} =>
    \A s \in Session : UsesServer(s) =>
      s \notin told \/ pc[s] = "erased" \/ (pc[s] \in {"swept", "detached"} /\ s \in channels)

\* A thread detaches itself too early only while do_accept is about to keep it.  A server is
\* used after its end by a session that was not told to stop, wherever that one is (it may
\* still serve its client), or by one that was told, has left the list, and either has yet
\* to call on_session_exit or had imported a device and is destroyed with its channel.
FaultCauses ==
  /\ fault = "terminate" => acc = "assign" /\ pc[Current] = "swept"
  /\ fault = "use_after_free" =>
       /\ stopPc = "destroyed"
       /\ \E s \in Session :
            \/ s \notin told /\ UsesServer(s)
            \/ pc[s] = "erased"
            \/ pc[s] = "detached" /\ s \in channels

Joined == stopPc \in {"returned", "exiting", "destroying", "destroyed"}

\* The network thread starts no session once it was joined: the acceptor and the
\* coroutine that refers to it are idle when they are destroyed.
NoStartAfterJoin ==
  [][Joined => UNCHANGED <<acc, accepted, assigned>> /\ list' \subseteq list]_vars

\* stop comes to its end and the server is destroyed, if do_accept has not thrown (its
\* expired session stays in the list for want of a thread that sweeps it) and the clients
\* of the sessions that were accepted too late to be told leave on their own.
StopTerminates ==
  /\ <>[](acc # "threw" /\ fault = "none")
  /\ \A s \in Session : []<>(pc[s] # "serving" \/ s \in told)
  => (stopPc = "waiting" ~> stopPc = "destroyed")

-----------------------------------------------------------------------------
(* What the repository says and the code does not do.                      *)

\* Server.cpp: when the wait is over, all sessions were closed.
AllSessionsClosed ==
  stopPc \notin {"no", "waiting"} => \A s \in Session : ~UsesServer(s)
=============================================================================
