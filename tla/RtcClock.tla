------------------------------ MODULE RtcClock ------------------------------
(***************************************************************************)
(* The clock program, applications/i2c_rtc/i2c_rtc.c, run by several       *)
(* processes, and the clock chip they talk to: registers 0 to 5 (second,   *)
(* minute, hour, day, month, year), 7 with the bit that allows writing,    *)
(* and an address that the last message left behind: 0 (home) or another.  *)
(*                                                                         *)
(* rtc is [reg, allowed, home, at, wants, buf, len, shown, alone, runs,    *)
(* failed]: the chip, and for each program its next step, what it is to    *)
(* do, its buffer, the length of its message, whether what it last printed *)
(* were the registers of the clock, and whether it is alone: when it sets  *)
(* the clock, the only one to do so, when it reads, the only one to use    *)
(* it; runs, how many were started; failed, a message was not taken by the *)
(* chip, which no program looks at.  A register holds the program that set *)
(* it, or 0 as it was, or one of the values below.                         *)
(***************************************************************************)
EXTENDS Integers

CONSTANTS
  Programs,    \* numbers of programs, from 1 on
  MaxRuns      \* how often they are started

VARIABLE rtc

Zero == -1           \* a byte of rtc_buf that was never written
AllOnes == -2        \* 255 as a field that was not given, converted to BCD and cut to a byte

Registers == 0 .. 5
TimeOf == 0 .. 2
DateOf == 3 .. 5
Jobs == {"date", "time", "both"}

Init ==
  rtc = [reg |-> [r \in Registers |-> 0], allowed |-> FALSE, home |-> TRUE,
         at |-> [p \in Programs |-> "out"], wants |-> [p \in Programs |-> "read"],
         buf |-> [p \in Programs |-> [i \in 0 .. 6 |-> Zero]], len |-> [p \in Programs |-> 0],
         shown |-> [p \in Programs |-> TRUE], alone |-> [p \in Programs |-> TRUE], runs |-> 0, failed |-> FALSE]

At(p, step) == rtc.at[p] = step
Setting(p) == rtc.at[p] \in {"enable", "write", "disable"}

\* main: a set of the time, the date or both, or a look at the clock.  rtcSetDateTime looks for
\* the time in the bytes behind the structure: they may or may not be all ones.
Fields(p, job, timeSeen) ==
  [i \in 0 .. 6 |->
     IF i \in 4 .. 6 /\ job \in {"date", "both"} THEN p
     ELSE IF i \in 1 .. 3 /\ timeSeen THEN IF job = "date" THEN AllOnes ELSE p
     ELSE Zero]

\* Mutant for ClockKept: the length is that of the data, without the address.
DataOnly(job, timeSeen) == (IF job = "time" THEN 0 ELSE 3) + (IF timeSeen THEN 3 ELSE 0)
Length(job, timeSeen) == 1 + (IF job = "time" THEN 0 ELSE 3) + (IF timeSeen THEN 3 ELSE 0)

\* buf_ptr: where the bytes that are to be sent begin, or 0.
Pointer(job, timeSeen) == IF timeSeen THEN 1 ELSE IF job = "time" THEN 0 ELSE 4

Begun(p, job) ==
  LET begun == [rtc EXCEPT !.wants[p] = job, !.runs = @ + 1]
      meets(q) == q # p /\ ~At(q, "out")
  IN  [begun EXCEPT !.alone = [q \in Programs |->
         IF q = p THEN \A o \in Programs : meets(o) => job # "read" /\ rtc.wants[o] = "read"
         ELSE @[q] /\ (meets(q) => job = "read" /\ rtc.wants[q] # "read")]]
BeginRead(p) ==
  /\ At(p, "out") /\ rtc.runs < MaxRuns
  /\ rtc' = [Begun(p, "read") EXCEPT !.at[p] = "address", !.shown[p] = TRUE]
BeginSet(p, job, timeSeen) ==
  /\ At(p, "out") /\ rtc.runs < MaxRuns /\ Pointer(job, timeSeen) # 0
  /\ rtc' = [Begun(p, job) EXCEPT !.at[p] = "enable", !.len[p] = Length(job, timeSeen),
               !.buf[p] = [Fields(p, job, timeSeen) EXCEPT ![0] = Pointer(job, timeSeen) - 1]]

\* A message: its first byte is the address, the rest goes to the registers from there on, to
\* those of the clock only if writing is allowed.
Message(p, to) == [rtc EXCEPT !.at[p] = to]
Ended(p) ==
  [Message(p, "out") EXCEPT !.buf[p] = [i \in 0 .. 6 |-> Zero], !.len[p] = 0, !.wants[p] = "read",
     !.shown[p] = TRUE, !.alone[p] = TRUE]
Lost(p, from, to) == At(p, from) /\ rtc' = [Message(p, to) EXCEPT !.failed = TRUE]
LastLost(p) == At(p, "disable") /\ rtc' = [Ended(p) EXCEPT !.failed = TRUE]

EnableWrite(p) ==
  At(p, "enable") /\ rtc' = [Message(p, "write") EXCEPT !.allowed = TRUE, !.home = FALSE]
Write(p) ==
  /\ At(p, "write")
  /\ LET first == rtc.buf[p][0]
         data == rtc.len[p] - 1
     IN  rtc' = [Message(p, "disable") EXCEPT !.home = FALSE,
                   !.reg = [r \in Registers |->
                              IF rtc.allowed /\ r \in first .. first + data - 1
                              THEN rtc.buf[p][r - first + 1] ELSE @[r]]]
DisableWrite(p) ==
  At(p, "disable") /\ rtc' = [Ended(p) EXCEPT !.allowed = FALSE, !.home = FALSE]

\* rtcGetDateTime: two messages, the address and the read.  With R it goes on.
SendAddress(p) == At(p, "address") /\ rtc' = [Message(p, "get") EXCEPT !.home = TRUE]
GetDateTime(p, again) ==
  /\ At(p, "get")
  /\ rtc' = [Message(p, IF again THEN "address" ELSE "out") EXCEPT !.home = FALSE,
               !.shown[p] = rtc.home]

Next ==
  \E p \in Programs :
    \/ BeginRead(p)
    \/ \E job \in Jobs, timeSeen \in BOOLEAN : BeginSet(p, job, timeSeen)
    \/ EnableWrite(p) \/ Write(p) \/ DisableWrite(p) \/ SendAddress(p)
    \/ \E again \in BOOLEAN : GetDateTime(p, again)
    \/ Lost(p, "enable", "write") \/ Lost(p, "write", "disable") \/ Lost(p, "address", "get")
    \/ LastLost(p)
\* What a program that was the only one to set the clock has set is in the registers (not for
\* a date alone: then zeros or the converted 255 arrive, and "both" needs the time be seen).
Arrived(p) ==
  LET fields == CASE rtc.wants[p] = "time" -> TimeOf
                  [] rtc.wants[p] = "both" /\ rtc.len[p] > 4 -> Registers
                  [] OTHER -> {}
  IN  \A r \in fields : rtc.reg[r] = p
=============================================================================
