------------------------------- MODULE IpcDemo ------------------------------
(***************************************************************************)
(* The demonstration of interprocess communication,                        *)
(* applications/interprocess_comm: the main thread sends a message, a      *)
(* second thread receives it and prints it.  A run can be killed; what it  *)
(* made in the file system and in the kernel stays.                        *)
(*                                                                         *)
(* ipc is [run, method, main, slave, got, open, pipe, fifo, queue, shm,    *)
(* killed]: the number of the run, which is also the message it sends; the *)
(* next steps of the two threads; the message that was received; the       *)
(* threads that have the named pipe open or wait for the other to open it, *)
(* what is in the pipe, whether the name exists, what is in the queue and  *)
(* in the segment; the methods of runs that were killed.                   *)
(***************************************************************************)
EXTENDS Integers, Sequences

CONSTANT MaxRuns

VARIABLE ipc

Methods == {"pipe", "fifo", "queue", "shm"}
Empty == 0        \* the content of a new segment: a text of no letters
NoSegment == -1

Idle(run, fifo, queue, shm, killed) ==
  [run |-> run, method |-> "none", main |-> "out", slave |-> "none", got |-> NoSegment,
   open |-> {}, pipe |-> <<>>, fifo |-> fifo, queue |-> queue, shm |-> shm, killed |-> killed]
Init == ipc = Idle(0, FALSE, <<>>, NoSegment, {})

Main(from) == ipc.main = from
Slave(from) == ipc.slave = from
By(method) == ipc.method = method

\* main, and the constructors of the senders: a named pipe that exists is removed and made
\* anew, a queue or a segment that exists is used.
Create(method) ==
  /\ Main("out") /\ ipc.run < MaxRuns
  /\ ipc' = [ipc EXCEPT !.run = @ + 1, !.method = method, !.main = "enter", !.got = NoSegment,
               !.fifo = @ \/ method = "fifo", !.slave = "none",
               !.shm = IF method = "shm" /\ @ = NoSegment THEN Empty ELSE @]

\* The message is entered and the thread started.
Start == Main("enter") /\ ipc' = [ipc EXCEPT !.main = "put", !.slave = "get"]

\* put of the senders.  To open a named pipe is to wait until the other end is open.
Mine(t) == [ipc EXCEPT !.open = @ \cup {t}]
OpenToPut == Main("put") /\ By("fifo") /\ ipc' = [Mine("main") EXCEPT !.main = "write"]
Sent(at) ==
  [ipc EXCEPT !.main = "join",
     !.pipe = IF ipc.method \in {"pipe", "fifo"} THEN Append(@, ipc.run) ELSE @,
     !.queue = IF By("queue") THEN Append(@, ipc.run) ELSE @,
     !.shm = IF By("shm") THEN ipc.run ELSE @]

Put == Main("put") /\ ~By("fifo") /\ ipc' = Sent("put")
PutOpened == Main("write") /\ "slave" \in ipc.open /\ ipc' = Sent("write")

\* get of the receivers.
Got(message) == [ipc EXCEPT !.slave = "ended", !.got = message]
OpenToGet == Slave("get") /\ By("fifo") /\ ipc' = [Mine("slave") EXCEPT !.slave = "read"]
GetPipe ==
  /\ (Slave("get") /\ By("pipe")) \/ (Slave("read") /\ "main" \in ipc.open)
  /\ ipc.pipe # <<>> /\ ipc' = [Got(Head(ipc.pipe)) EXCEPT !.pipe = Tail(@)]
GetQueue ==
  /\ Slave("get") /\ By("queue") /\ ipc.queue # <<>>
  /\ ipc' = [Got(Head(ipc.queue)) EXCEPT !.queue = Tail(@)]
GetShm == Slave("get") /\ By("shm") /\ ipc' = Got(ipc.shm)

\* After the join the destructors: the name, the queue and the segment are removed.
\* Mutant for GetsSent: the segment is left.
LeaveSegment ==
  /\ Main("join") /\ Slave("ended")
  /\ ipc' = [Idle(ipc.run, ipc.fifo /\ ~By("fifo"), IF By("queue") THEN <<>> ELSE ipc.queue,
                  ipc.shm, ipc.killed) EXCEPT !.method = ipc.method, !.got = ipc.got, !.slave = "ended"]
Delete ==
  /\ Main("join") /\ Slave("ended")
  /\ ipc' = [Idle(ipc.run, ipc.fifo /\ ~By("fifo"), IF By("queue") THEN <<>> ELSE ipc.queue,
                  IF By("shm") THEN NoSegment ELSE ipc.shm, ipc.killed)
               EXCEPT !.method = ipc.method, !.got = ipc.got, !.slave = "ended"]

Kill ==
  /\ ~Main("out")
  /\ ipc' = Idle(ipc.run, ipc.fifo, ipc.queue, ipc.shm, ipc.killed \cup {ipc.method})

MainGoes == OpenToPut \/ Put \/ PutOpened \/ Delete
SlaveGoes == OpenToGet \/ GetPipe \/ GetQueue \/ GetShm
Next == MainGoes \/ SlaveGoes \/ Start \/ Kill \/ \E method \in Methods : Create(method)
Fairness == WF_ipc(MainGoes) /\ WF_ipc(SlaveGoes)

\* The message that is printed.
Right ==
  \/ ipc.got = ipc.run
  \/ ipc.method \in {"queue", "shm"} /\ ipc.method \in ipc.killed
  \/ By("shm") /\ ipc.got = Empty
=============================================================================
