----------------------------- MODULE Timestamps -----------------------------
(***************************************************************************)
(* The time of a row: read from the clock the options name, packed into    *)
(* one 64 bit number by __log2mem_init_row or log2mem_time, and unpacked   *)
(* by print_rows through log2mem_ts_to_timespec and _timeval.              *)
(*                                                                         *)
(* Shifts and masks are products and remainders of powers of two, which    *)
(* are parameters: the proofs hold for 2^34 and 2^30, while TLC, whose     *)
(* integers have 32 bits, is given smaller ones.                           *)
(***************************************************************************)
EXTENDS Integers

CONSTANTS
  NanoMod,   \* 2^MEMLOG_BITS_NANO
  SecMod,    \* 2^MEMLOG_BITS_SECS; a log2mem_ts is below NanoMod * SecMod
  TimeMod,   \* 2^w for a time_t, and a long, of w bits
  PerMicro,  \* nanoseconds in a microsecond
  PerSec,    \* nanoseconds in a second
  Second     \* what the clock may show

VARIABLES
  source,  \* header->config.options & MEMLOG_CLOCKSOURCE_MASK
  ts,      \* row->ts
  at,      \* history: the clock when ts was taken
  shown    \* what a dump shows of ts

vars == <<source, ts, at, shown>>

Sources == {"none", "GETTIMEOFDAY", "CLOCKGETTIME", "RDTSC"}
TsMod   == NanoMod * SecMod
Moment  == [sec : Second, nano : 0 .. PerSec - 1]
NoTime  == [sec |-> 0, nano |-> 0]

-----------------------------------------------------------------------------
\* What a time_t keeps of a number.
Signed(n) == LET u == n % TimeMod IN IF 2 * u < TimeMod THEN u ELSE u - TimeMod

\* (tv_sec << MEMLOG_BITS_NANO) + tv_nsec, in time_t, stored as a uint64_t.
Pack(sec, nano) == Signed(sec * NanoMod + nano) % TsMod

Micros(m) == m.nano \div PerMicro   \* tv_usec, the most gettimeofday gives
ReadClock(m, else) ==
  CASE source = "RDTSC"        -> m.sec * PerSec + m.nano   \* some count of the processor
    [] source = "GETTIMEOFDAY" -> Pack(m.sec, Micros(m) * PerMicro)
    [] source = "CLOCKGETTIME" -> Pack(m.sec, m.nano)
    [] OTHER                   -> else

\* log2mem_ts_to_timespec and log2mem_ts_to_timeval.
Seconds(t) == Signed((t \div NanoMod) % SecMod)
Nanos(t)   == t % NanoMod

-----------------------------------------------------------------------------
Take(m, else) ==
  /\ ts' = ReadClock(m, else)
  /\ at' = m
  /\ shown' = NoTime
  /\ UNCHANGED source

\* __log2mem_init_row: without a clock source the row keeps the old time.
InitRow == \E m \in Moment : Take(m, ts)

\* log2mem_set_ts of log2mem_time, which is 0 without a clock source.
SetTs == \E m \in Moment : Take(m, 0)

\* print_rows.
Show ==
  /\ shown' = CASE source = "GETTIMEOFDAY" ->
                     [sec |-> Seconds(ts), nano |-> (Nanos(ts) \div PerMicro) * PerMicro]
                [] source = "CLOCKGETTIME" -> [sec |-> Seconds(ts), nano |-> Nanos(ts)]
                [] OTHER -> NoTime
  /\ UNCHANGED <<source, ts, at>>

Init == source \in Sources /\ ts = 0 /\ at = NoTime /\ shown = NoTime
Next == InitRow \/ SetTs \/ Show
Spec == Init /\ [][Next]_vars

-----------------------------------------------------------------------------
\* "for time values, the 64 bits are split into seconds 34, nanosec 30"
\* (log2mem_dev.h): the time a dump shows is the time that was read, to the
\* microsecond or the nanosecond as the clock source has it.
TimeKept ==
  shown # NoTime =>
    /\ shown.sec = at.sec
    /\ source = "CLOCKGETTIME" => shown.nano = at.nano
    /\ source = "GETTIMEOFDAY" => shown.nano = Micros(at) * PerMicro
=============================================================================
