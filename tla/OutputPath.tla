----------------------------- MODULE OutputPath -----------------------------
(***************************************************************************)
(* The way out of a session: the loop of run_session hands frames to the   *)
(* bounded queue out_tx, a task of its own (writer_loop) writes them to    *)
(* the socket, and the same loop reads what the server sends.  The socket  *)
(* and the server are external: a socket holds a bounded number of frames  *)
(* and a server may stop reading it for good.                              *)
(*                                                                         *)
(* Frames and PDUs are counted, not told apart.  The command queue has     *)
(* room for the marker of a shutdown here; CommandQueue models it full.    *)
(***************************************************************************)
EXTENDS Naturals

CONSTANTS OutCap,      \* OUTPUT_QUEUE_CAPACITY
          SockCap,     \* frames the sockets of both sides hold
          InCap,       \* PDUs in flight from the server
          MaxCommands, \* bound: commands of the user and of the clipboard
          MaxPdus,     \* bound: PDUs the server sends of its own accord
          MaxReplies,  \* frames one PDU or command is answered with, at most
          MaxSteps     \* PDUs a Deactivation-Reactivation takes, at most

ASSUME CapsAssumption == /\ OutCap \in Nat \ {0} /\ SockCap \in Nat \ {0}
                         /\ InCap \in Nat \ {0} /\ MaxReplies \in Nat \ {0}
ASSUME BoundsAssumption == /\ MaxCommands \in Nat /\ MaxPdus \in Nat
                           /\ MaxSteps \in Nat

VARIABLES loop,     \* where run_session is
          emits,    \* frames the handler under way has still to emit
          steps,    \* PDUs a reactivation under way has still to read
          outq,     \* frames in the output queue
          writer,   \* what writer_loop is doing
          commands, \* commands in the command queue, markers aside
          given,    \* commands given and clipboard signals so far
          shutdown, \* PendingCommands.shutdown
          marker,   \* a Shutdown marker is in the command queue
          sock,     \* frames written and not yet read by the server
          inbound,  \* PDUs sent by the server and not yet read
          sent,     \* PDUs the server sent of its own accord
          broken,   \* the connection is gone
          accepted, \* ghost: frames the queue accepted
          written   \* ghost: frames the socket accepted

loopVars   == <<loop, emits, steps, outq, accepted>>
writerVars == <<writer, sock, written>>
uiVars     == <<commands, given, shutdown, marker>>
serverVars == <<inbound, sent, broken>>
pathVars == <<loopVars, writerVars, uiVars, serverVars>>

PathInit == /\ loop = "top" /\ emits = 0 /\ steps = 0 /\ outq = 0 /\ accepted = 0
        /\ writer = "idle" /\ sock = 0 /\ written = 0
        /\ commands = 0 /\ given = 0 /\ shutdown = FALSE /\ marker = FALSE
        /\ inbound = 0 /\ sent = 0 /\ broken = FALSE

Closed == shutdown \/ marker \/ loop \in {"quitting", "flushing", "ended"}
-----------------------------------------------------------------------------
(* The user. *)

GiveCommand == /\ ~Closed /\ given < MaxCommands
               /\ commands' = commands + 1 /\ given' = given + 1
               /\ UNCHANGED <<loopVars, writerVars, serverVars, shutdown, marker>>

(* Mutant of Close: only the flag is set, no marker wakes the loop. *)
CloseByFlagOnly ==
    /\ ~Closed
    /\ shutdown' = TRUE
    /\ UNCHANGED <<loopVars, writerVars, serverVars, commands, given, marker>>

Close == /\ ~Closed
         /\ shutdown' = TRUE /\ marker' = TRUE
         /\ UNCHANGED <<loopVars, writerVars, serverVars, commands, given>>
-----------------------------------------------------------------------------
(* The session loop.  A handler is a step that says how many frames it has *)
(* to emit; the emits follow one by one and may each wait for room.        *)

BeginQuit == loop' = "quitting" /\ emits' = 1 /\ shutdown' = FALSE

TopOfLoop ==
    /\ loop = "top"
    /\ \/ shutdown /\ BeginQuit
       \/ ~shutdown /\ loop' = "select" /\ UNCHANGED <<emits, shutdown>>
    /\ UNCHANGED <<steps, outq, accepted, writerVars, commands, given, marker,
                   serverVars>>

(* The keep-alive tap, which nobody gives, is such a command too. *)
CommandArm ==
    /\ loop = "select" /\ commands > 0
    /\ commands' = commands - 1
    /\ loop' = "emitting"
    /\ emits' \in 0..MaxReplies
    /\ UNCHANGED <<steps, outq, accepted, writerVars, given, shutdown, marker,
                   serverVars>>

(* A signal of the clipboard, or the tick that drives its timeouts. *)
ClipboardArm ==
    /\ loop = "select" /\ given < MaxCommands
    /\ given' = given + 1
    /\ loop' = "clipboard"
    /\ emits' \in 0..MaxReplies
    /\ UNCHANGED <<steps, outq, accepted, writerVars, commands, shutdown, marker,
                   serverVars>>

(* The marker waits behind the commands given before it. *)
MarkerArm ==
    /\ loop = "select" /\ marker /\ commands = 0
    /\ marker' = FALSE
    /\ \/ shutdown /\ BeginQuit
       \/ ~shutdown /\ loop' = "top" /\ UNCHANGED <<emits, shutdown>>
    /\ UNCHANGED <<steps, outq, accepted, writerVars, commands, given, serverVars>>

PduArm ==
    /\ loop = "select" /\ inbound > 0
    /\ inbound' = inbound - 1
    /\ \/ loop' = "emitting" /\ emits' \in 0..MaxReplies /\ UNCHANGED steps
       \/ loop' = "reactivating" /\ emits' = 0 /\ steps' \in 0..MaxSteps
    /\ UNCHANGED <<outq, accepted, writerVars, uiVars, sent, broken>>

(* Inside reactivate only the server is read: commands and the shutdown    *)
(* flag wait.  Its last act is to emit the keyboard synchronisation.       *)
ReactivateStep ==
    /\ loop = "reactivating" /\ emits = 0 /\ steps > 0 /\ inbound > 0
    /\ inbound' = inbound - 1 /\ steps' = steps - 1 /\ emits' \in 0..1
    /\ UNCHANGED <<loop, outq, accepted, writerVars, uiVars, sent, broken>>

ReactivateDone ==
    /\ loop = "reactivating" /\ emits = 0 /\ steps = 0
    /\ loop' = "emitting" /\ emits' = 1
    /\ UNCHANGED <<steps, outq, accepted, writerVars, uiVars, serverVars>>

Emit ==
    /\ loop \in {"emitting", "clipboard", "reactivating", "quitting"} /\ emits > 0
    /\ writer # "stopped" /\ outq < OutCap
    /\ outq' = outq + 1 /\ emits' = emits - 1 /\ accepted' = accepted + 1
    /\ UNCHANGED <<loop, steps, writerVars, uiVars, serverVars>>

(* Leaving the loop aborts the writer, whatever it is doing. *)
Finish == loop' = "ended" /\ writer' = "stopped"

(* A PDU that ends the session, or one that cannot be processed. *)
PduEndsSession ==
    /\ loop = "select" /\ inbound > 0
    /\ inbound' = inbound - 1
    /\ Finish
    /\ UNCHANGED <<emits, steps, outq, accepted, sock, written, uiVars, sent, broken>>

(* A closed queue refuses the frame, which ends the session.  A graceful   *)
(* shutdown that fails is still a quit at the top of the loop, where there *)
(* is nobody left to wait for, and a lost connection in the arm of its     *)
(* marker: CommandQueue and SessionLifecycle tell the two apart.           *)
EmitFails ==
    /\ loop \in {"emitting", "reactivating", "quitting"} /\ emits > 0
    /\ writer = "stopped"
    /\ Finish
    /\ UNCHANGED <<emits, steps, outq, accepted, sock, written, uiVars, serverVars>>

(* What the clipboard cannot send is only logged. *)
ClipboardFails ==
    /\ loop = "clipboard" /\ emits > 0
    /\ writer = "stopped"
    /\ loop' = "top" /\ emits' = 0
    /\ UNCHANGED <<steps, outq, accepted, writerVars, uiVars, serverVars>>

ReadFails ==
    /\ \/ loop = "select"
       \/ loop = "reactivating" /\ emits = 0 /\ steps > 0
    /\ broken /\ inbound = 0
    /\ Finish
    /\ UNCHANGED <<emits, steps, outq, accepted, sock, written, uiVars, serverVars>>

Handled ==
    /\ loop \in {"emitting", "clipboard", "quitting"} /\ emits = 0
    /\ loop' = IF loop = "quitting" THEN "flushing" ELSE "top"
    /\ UNCHANGED <<emits, steps, outq, accepted, writerVars, uiVars, serverVars>>

(* SHUTDOWN_FLUSH bounds the wait, so it may end with frames unwritten. *)
Flushed ==
    /\ loop = "flushing"
    /\ Finish
    /\ UNCHANGED <<emits, steps, outq, accepted, sock, written, uiVars, serverVars>>
-----------------------------------------------------------------------------
(* The writer task. *)

(* Mutant of Take: the writer is an arm of the select, not its own task. *)
TakeBetweenArms ==
    /\ loop = "select" /\ writer = "idle" /\ outq > 0
    /\ writer' = "writing" /\ outq' = outq - 1
    /\ UNCHANGED <<loop, emits, steps, accepted, sock, written, uiVars, serverVars>>

Take == /\ writer = "idle" /\ outq > 0
        /\ writer' = "writing" /\ outq' = outq - 1
        /\ UNCHANGED <<loop, emits, steps, accepted, sock, written, uiVars,
                       serverVars>>

Write == /\ writer = "writing" /\ ~broken /\ sock < SockCap
         /\ writer' = "idle" /\ sock' = sock + 1 /\ written' = written + 1
         /\ UNCHANGED <<loopVars, uiVars, serverVars>>

(* Mutant of WriteFails: a frame that cannot be written is dropped. *)
WriteFailsAndGoesOn == /\ writer = "writing" /\ broken
                       /\ writer' = "idle"
                       /\ UNCHANGED <<loopVars, sock, written, uiVars, serverVars>>

WriteFails == /\ writer = "writing" /\ broken
              /\ writer' = "stopped"
              /\ UNCHANGED <<loopVars, sock, written, uiVars, serverVars>>
-----------------------------------------------------------------------------
(* The server and the network: external. *)

ServerReads == /\ sock > 0 /\ sock' = sock - 1
               /\ UNCHANGED <<loopVars, writer, written, uiVars, serverVars>>

ServerSends == /\ ~broken /\ inbound < InCap /\ sent < MaxPdus
               /\ inbound' = inbound + 1 /\ sent' = sent + 1
               /\ UNCHANGED <<loopVars, writerVars, uiVars, broken>>

(* What a reactivation still needs. *)
ServerReactivates ==
    /\ ~broken /\ loop = "reactivating" /\ inbound < steps /\ inbound < InCap
    /\ inbound' = inbound + 1
    /\ UNCHANGED <<loopVars, writerVars, uiVars, sent, broken>>

Break == /\ ~broken /\ broken' = TRUE
         /\ UNCHANGED <<loopVars, writerVars, uiVars, inbound, sent>>
-----------------------------------------------------------------------------
SessionLoop == \/ TopOfLoop \/ CommandArm \/ ClipboardArm \/ MarkerArm
               \/ PduArm \/ PduEndsSession \/ ReactivateStep \/ ReactivateDone
               \/ Emit \/ EmitFails \/ ClipboardFails \/ ReadFails
               \/ Handled \/ Flushed
Writer == Take \/ Write \/ WriteFails
Server == ServerReads \/ ServerSends \/ ServerReactivates \/ Break
PathNext == GiveCommand \/ Close \/ SessionLoop \/ Writer \/ Server

(* The runtime polls a task that can go on; the select loop takes one of   *)
(* the arms that are ready.  Nothing is assumed of the server.             *)
PathSpec == /\ PathInit /\ [][PathNext]_pathVars
            /\ WF_pathVars(SessionLoop) /\ WF_pathVars(Writer)

(* A server that keeps reading and finishes the reactivations it starts. *)
ServedSpec == /\ PathSpec
              /\ WF_pathVars(ServerReads) /\ WF_pathVars(ServerReactivates)
-----------------------------------------------------------------------------
(* Every variable of the output path has its type. *)
PathTypeOK ==
    /\ loop \in {"top", "select", "emitting", "clipboard", "reactivating",
                 "quitting", "flushing", "ended"}
    /\ emits \in 0..MaxReplies /\ steps \in 0..MaxSteps
    /\ outq \in 0..OutCap /\ accepted \in Nat
    /\ writer \in {"idle", "writing", "stopped"}
    /\ sock \in 0..SockCap /\ written \in Nat
    /\ commands \in 0..MaxCommands /\ given \in 0..MaxCommands
    /\ shutdown \in BOOLEAN /\ marker \in BOOLEAN
    /\ inbound \in 0..InCap /\ sent \in 0..MaxPdus /\ broken \in BOOLEAN

(* No frame is lost from the middle of the stream: while the writer lives, *)
(* every frame the queue accepted was written, is being written or waits;  *)
(* and it stops before the session does only when the connection is gone.  *)
NoFrameSkipped ==
    /\ writer = "idle" => accepted = written + outq
    /\ writer = "writing" => accepted = written + outq + 1
    /\ (writer = "stopped" /\ loop # "ended") => broken

(* Whatever the server sends is read, or the session ends: the comment at  *)
(* the split of the stream says a write blocked on TCP backpressure can    *)
(* never stall reads.                                                      *)
ReadsNeverStall == []<>(inbound = 0 \/ loop = "ended")

(* On a connection that is up, a session the user closes comes to the end  *)
(* of run_session: the comment there says a task blocked on a wedged       *)
(* socket can never leak.                                                  *)
QuitIsBounded == Closed ~> (loop = "ended")
=============================================================================
