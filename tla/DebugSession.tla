----------------------------- MODULE DebugSession -----------------------------
(***************************************************************************)
(* A program that is being debugged.  It runs, loads classes, sets errno   *)
(* and fills its caches by calling methods; the debugger stops it and calls*)
(* the lookup functions (GdbLookup) and the DOT dumps (DotFiles) in it, and*)
(* lets it go on.  The dumps can be called by the program, too, and then   *)
(* other threads go on loading classes.                                    *)
(***************************************************************************)
EXTENDS Naturals, FiniteSets

CONSTANTS Classes, Super, Mixins, Closed, Markup, Methods, MethodIds, Cached, None, Errnos,
          MaxDumps, MaxFailures,
          MaxStops   \* bound on the stops

VARIABLES loaded, pc, begun, visited, files, failed, complete, reported, dumps, failures,
          errno, filled, answer,
          stop,   \* is the program stopped, and the state it was found in, for as long
                  \* as the debugger has called for nothing but implementations
          stops

Files == INSTANCE DotFiles
Gdb   == INSTANCE GdbLookup

ASSUME DebugSessionAssumption == Files!ConstantsOK /\ Gdb!ConstantsOK /\ MaxStops \in Nat

directory == <<pc, begun, visited, files, failed, complete, reported, dumps, failures>>
session   == <<stop, stops>>
vars == <<directory, loaded, errno, filled, answer, session>>

Off         == [is |-> "off"]
Found(e, c) == [is |-> "untouched", errno |-> e, filled |-> c]
Touched     == [is |-> "touched"]

Init == /\ Files!Init
        /\ filled = {} /\ answer = Gdb!NULL
        /\ stop = Off /\ stops = 0

Running == stop.is = "off"

\* the program calls a method
Call == /\ Running /\ errno' \in Errnos
        /\ \E c \in Cached : c \in loaded /\ filled' = filled \union {c}
        /\ UNCHANGED <<directory, loaded, answer, session>>

Stop == /\ Running /\ stops < MaxStops
        /\ stop' = Found(errno, filled)
        /\ stops' = stops + 1
        /\ UNCHANGED <<directory, loaded, errno, filled, answer>>

\* the debugger waits for the function it called
Resume == /\ ~ Running /\ pc = "idle"
          /\ stop' = Off /\ answer' = Gdb!NULL
          /\ UNCHANGED <<directory, loaded, errno, filled, stops>>

\* a dump, by the program or by the debugger; loading goes on unless all is stopped
Dump == /\ Files!Next
        /\ loaded' = loaded \/ Running \/ pc # "idle"
        /\ stop' = IF Running THEN Off ELSE Touched
        /\ UNCHANGED <<filled, answer, stops>>

Asked == /\ ~ Running /\ pc = "idle"
         /\ UNCHANGED <<directory, stops>>

AskForImplementation == Asked /\ Gdb!Implementations /\ UNCHANGED stop
AskForName           == Asked /\ Gdb!Names /\ stop' = Touched

Next == Call \/ Stop \/ Resume \/ Dump \/ AskForImplementation \/ AskForName

Spec == Init /\ [][Next]_vars

-------------------------------------------------------------------------------
TypeOK == /\ Files!TypeOK /\ Gdb!TypeOK
          /\ stop \in {Off, Touched} \union {Found(e, c) : e \in Errnos, c \in SUBSET Cached}
          /\ stops \in 0 .. MaxStops

(***************************************************************************)
(* A debugger that steps through message sends asks for implementations at *)
(* each of them.  A stop in which it has asked for nothing else leaves the *)
(* program's errno and its caches as it found them ("preserve = errno",    *)
(* "nofill"), over any number of such calls.                               *)
(***************************************************************************)
LookupsLeaveNoTrace ==
  stop.is = "untouched" => errno = stop.errno /\ filled = stop.filled

(***************************************************************************)
(* The links of a dump of the universe to dot files land (DotFiles), with  *)
(* the exceptions named there, also if the program loads classes between   *)
(* its stages and afterwards, and whatever was called in between.          *)
(***************************************************************************)
LinksLand == Files!LinksLand
===============================================================================
