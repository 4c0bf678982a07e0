---------------------------- MODULE EventSocket ----------------------------
(***************************************************************************)
(* The kernel's change notifications and the socket they are queued on:    *)
(* the netlink socket of watch_linux.rs, the routing socket of             *)
(* watch_route.rs. What a notification says is of no interest to the       *)
(* library, only that there is one.                                        *)
(*                                                                         *)
(* The configuration changes first and the notification is queued later.   *)
(* A queue that is full loses the notification. A netlink socket then      *)
(* reports the loss: the next recv fails (ENOBUFS), and until the queue    *)
(* has been emptied every further notification is lost in silence. A       *)
(* routing socket just drops what does not fit.                            *)
(***************************************************************************)
EXTENDS Host

CONSTANT QueueCap   \* how many notifications the socket's buffer holds

ASSUME SocketAssumption == QueueCap \in Nat \ {0}

VARIABLES
  unsent,   \* changes already made whose notification is not yet queued
  sock      \* the socket

socketVars == <<os, epoch, snap, unsent, sock>>

SocketKinds == {"netlink", "route"}

Socket == [kind      : SocketKinds,
           open      : BOOLEAN,
           queue     : 0..QueueCap,
           error     : BOOLEAN,     \* a loss was recorded and not yet reported
           congested : BOOLEAN]     \* netlink: losing everything until emptied

SocketTypeOK ==
  /\ HostTypeOK
  /\ unsent \in 0..MaxChanges
  /\ sock \in Socket

EmptySocket(kind, open) == [kind |-> kind, open |-> open, queue |-> 0,
                            error |-> FALSE, congested |-> FALSE]

NewSocket(kind) == EmptySocket(kind, TRUE)

Closed(s) == EmptySocket(s.kind, FALSE)

SocketInit ==
  /\ HostInit
  /\ unsent = 0
  /\ \E kind \in SocketKinds : sock = Closed(NewSocket(kind))

(* poll reports POLLIN or POLLERR                                          *)
Readable(s) == s.queue > 0 \/ s.error

(* The socket after the kernel tries to queue one notification.            *)
Delivered(s) ==
  IF ~s.open \/ s.congested THEN s
  ELSE IF s.queue < QueueCap THEN [s EXCEPT !.queue = @ + 1]
  ELSE IF s.kind = "netlink" THEN [s EXCEPT !.error = TRUE, !.congested = TRUE]
  ELSE s

(* That attempt wakes whoever waits for the socket: a notification was     *)
(* queued, or the loss of one was recorded for the first time.             *)
DeliveryWakes(s) == s.open /\ Delivered(s) # s

(* The socket after one recv. A recorded error is reported first and takes *)
(* nothing off the queue.                                                  *)
Received(s) ==
  IF s.error THEN [s EXCEPT !.error = FALSE]
  ELSE IF s.queue > 0 THEN [s EXCEPT !.queue = @ - 1,
                                     !.congested = @ /\ s.queue > 1]
  ELSE s

(* drain_event_socket breaks out of its loop: recv failed, for whatever    *)
(* reason (Err(_) and EAGAIN alike), rather than returned a message.       *)
DrainEnds(s) == s.error \/ s.queue = 0

OsChanges ==
  /\ ChangeConfiguration
  /\ unsent' = unsent + 1
  /\ UNCHANGED sock

OsNotifies ==
  /\ unsent > 0
  /\ unsent' = unsent - 1
  /\ sock' = Delivered(sock)
  /\ UNCHANGED hostVars

(* Some change may yet make the socket readable, or has made it so.        *)
NewsPending == unsent > 0 \/ Readable(sock)

=============================================================================
