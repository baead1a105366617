------------------------------ MODULE FrameDump -------------------------------
(***************************************************************************)
(* mulle_objc_universe_dotdump_frame_to_directory: each call takes the next*)
(* number from a static atomic counter and writes the universe's page into *)
(* universe_<number>.dot, unless MULLE_OBJC_DOTDUMP_MAX frames have been   *)
(* numbered.  Calls may come from several threads.                         *)
(*                                                                         *)
(* The counter is a pointer-sized word; the number is its value cast to    *)
(* int.  Both are modelled with 2 * IntHalf values, so that the cast wraps *)
(* where the number turns negative.                                        *)
(***************************************************************************)
EXTENDS Integers, FiniteSets

CONSTANTS Threads,      \* the threads that dump frames
          Directory,    \* what they pass as directory
          Cwd,          \* the working directory of the process
          MaxSettings,  \* values of MULLE_OBJC_DOTDUMP_MAX; 0 when unset or not a number
          IntHalf,      \* half the number of int values, 2^31
          MaxCalls      \* bound on the number of calls

ASSUME FrameDumpAssumption ==
  /\ IntHalf \in Nat \ {0}
  /\ MaxSettings \subseteq -IntHalf .. (IntHalf - 1)
  /\ MaxCalls \in Nat

VARIABLES max,      \* atoi( getenv( "MULLE_OBJC_DOTDUMP_MAX"))
          counter,  \* the static counter, kept in 0 .. 2 * IntHalf - 1
          calls,    \* number of calls so far
          pc,       \* of each thread: "idle", "numbered" or "writing"
          nr,       \* the number each thread took
          files,    \* the files written or being written
          skipped   \* the numbers whose file could not be opened

vars == <<max, counter, calls, pc, nr, files, skipped>>

\* faulty variant: the number is not cast to int
NoCast(word) == word

ToInt(word) == IF word < IntHalf THEN word ELSE word - 2 * IntHalf

Init == /\ max \in MaxSettings
        /\ counter = 0 /\ calls = 0
        /\ pc = [t \in Threads |-> "idle"]
        /\ nr = [t \in Threads |-> 0]
        /\ files = {} /\ skipped = {}

\* faulty variant: a plain counter, an increment may be lost
TakeNumberRacing(t) ==
  /\ pc[t] = "idle" /\ calls < MaxCalls
  /\ calls' = calls + 1
  /\ nr' = [nr EXCEPT ![t] = ToInt(counter)]
  /\ counter' \in {counter, (counter + 1) % (2 * IntHalf)}
  /\ pc' = [pc EXCEPT ![t] = "numbered"]
  /\ UNCHANGED <<max, files, skipped>>

\* the increment returns the value before it
TakeNumber(t) ==
  /\ pc[t] = "idle" /\ calls < MaxCalls
  /\ calls' = calls + 1
  /\ nr' = [nr EXCEPT ![t] = ToInt(counter)]
  /\ counter' = (counter + 1) % (2 * IntHalf)
  /\ pc' = [pc EXCEPT ![t] = "numbered"]
  /\ UNCHANGED <<max, files, skipped>>

\* faulty variant: one frame too many
BeyondMax(t) == max # 0 /\ nr[t] > max

OverMax(t) == max # 0 /\ nr[t] >= max

Skip(t) == /\ pc[t] = "numbered" /\ OverMax(t)
           /\ pc' = [pc EXCEPT ![t] = "idle"]
           /\ UNCHANGED <<max, counter, calls, nr, files, skipped>>

\* the file name has no directory in it (line 1254): it is opened in Cwd
File(t) == [in |-> Cwd, nr |-> nr[t], by |-> t]

Open(t) == /\ pc[t] = "numbered" /\ ~ OverMax(t)
           /\ files' = {f \in files : f.nr # nr[t]} \union {File(t)}
           /\ pc' = [pc EXCEPT ![t] = "writing"]
           /\ UNCHANGED <<max, counter, calls, nr, skipped>>

OpenFails(t) == /\ pc[t] = "numbered" /\ ~ OverMax(t)
                /\ skipped' = skipped \union {nr[t]}
                /\ pc' = [pc EXCEPT ![t] = "idle"]
                /\ UNCHANGED <<max, counter, calls, nr, files>>

Close(t) == /\ pc[t] = "writing"
            /\ pc' = [pc EXCEPT ![t] = "idle"]
            /\ UNCHANGED <<max, counter, calls, nr, files, skipped>>

Next == \E t \in Threads : TakeNumber(t) \/ Skip(t) \/ Open(t) \/ OpenFails(t) \/ Close(t)

Spec == Init /\ [][Next]_vars

-------------------------------------------------------------------------------
TypeOK == /\ max \in -IntHalf .. (IntHalf - 1)
          /\ counter \in 0 .. 2 * IntHalf - 1
          /\ calls \in 0 .. MaxCalls
          /\ pc \in [Threads -> {"idle", "numbered", "writing"}]
          /\ nr \in [Threads -> -IntHalf .. (IntHalf - 1)]
          /\ files \subseteq [in : {Cwd, Directory}, nr : -IntHalf .. (IntHalf - 1), by : Threads]
          /\ skipped \subseteq -IntHalf .. (IntHalf - 1)

(***************************************************************************)
(* Of the first IntHalf calls, MULLE_OBJC_DOTDUMP_MAX lets through exactly *)
(* the first max: never more than max frames, whichever thread is fast, and*)
(* no hole in the film except for a file that could not be opened.         *)
(***************************************************************************)
Numbers == {f.nr : f \in files} \union skipped
FilmHasNoHoles ==
  calls <= IntHalf /\ (\A t \in Threads : pc[t] = "idle") =>
    Numbers = {k \in 0 .. calls - 1 : max # 0 => k < max}

(***************************************************************************)
(* No frame overwrites an earlier one, finished or still being written by  *)
(* another thread, before the counter has gone all the way round: a file,  *)
(* once there, stays that call's.                                          *)
(***************************************************************************)
NeverOverwritten == [][calls <= 2 * IntHalf => files \subseteq files']_vars

(***************************************************************************)
(* "mulle_objc_universe_dotdump_frame_to_directory(universe, "/tmp/frame")"*)
(* (patterns.md) captures the frame in that directory.                     *)
(***************************************************************************)
FrameInDirectory == \A f \in files : f.in = Directory
===============================================================================
