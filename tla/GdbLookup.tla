------------------------------ MODULE GdbLookup ------------------------------
(***************************************************************************)
(* The functions of mulle-objc-gdb.c, which a debugger calls in a program  *)
(* it has stopped.  The runtime's lookups are outside of this code: a      *)
(* "lookup" may fill caches, one with "nofill" in its name does not, and   *)
(* any of them may set errno.                                              *)
(***************************************************************************)
EXTENDS Naturals

CONSTANTS Classes,     \* the names of the classes; there is an object of each
          Super,       \* of each class: its superclass, or None
          Methods,     \* of each class: the set of the ids of its methods
          MethodIds,   \* the ids a debugger asks for
          Cached,      \* the classes whose caches are watched
          None,        \* NULL, and the id that is none
          Errnos       \* the values of errno

\* what the constants have to be; assumed where they get their values
ConstantsOK ==
  /\ Super \in [Classes -> Classes \union {None}]
  /\ Methods \in [Classes -> SUBSET MethodIds]
  /\ Cached \subseteq Classes /\ None \notin Classes /\ None \notin MethodIds

VARIABLES loaded,   \* the class table
          errno,
          filled,   \* the classes whose caches have been written
          answer    \* what the last call returned: a class, a method id, or an
                    \* implementation by its class and method id

Answer(class, methodid) == <<class, methodid>>
NULL == Answer(None, None)

(***************************************************************************)
(* The runtime.                                                            *)
(***************************************************************************)
Search[c \in Classes \union {None}] ==    \* the classes that are searched for c
  IF c = None THEN {} ELSE {c} \union Search[Super[c]]

\* of the classes that are searched the first one with the method: all others
\* with the method are searched for it, too
Implementation(c, methodid) ==
  LET found == {d \in Search[c] : methodid \in Methods[d]}
  IN  IF found = {} THEN NULL
      ELSE Answer(CHOOSE d \in found : found \subseteq Search[d], methodid)

MayFill == \E some \in {{}} \union {{c} : c \in loaded \intersect Cached} : filled' = filled \union some
SelectorsKnown == UNION {Methods[c] : c \in loaded}

-------------------------------------------------------------------------------
\* faulty variant: a class is returned that the universe does not have
LookupClassUnchecked(name) ==
  /\ answer' = Answer(name, None)
  /\ errno' \in Errnos /\ MayFill
  /\ UNCHANGED loaded

\* mulle_objc_gdb_lookup_class
LookupClass(name) ==
  /\ answer' = IF name \in loaded THEN Answer(name, None) ELSE NULL
  /\ errno' \in Errnos /\ MayFill
  /\ UNCHANGED loaded

\* mulle_objc_gdb_lookup_selector
LookupSelector(methodid) ==
  /\ answer' = IF methodid \in SelectorsKnown THEN Answer(None, methodid) ELSE NULL
  /\ errno' \in Errnos /\ MayFill
  /\ UNCHANGED loaded

\* sel_get_any_uid, which checks its argument
SelGetAnyUid(methodid) ==
  IF methodid = None
    THEN answer' = NULL /\ UNCHANGED <<loaded, errno, filled>>
    ELSE LookupSelector(methodid)

\* faulty variant: what the runtime left in errno stays there
NotPreserved(e, preserve) == e

\* errno = preserve, on every way out
Preserved(e, preserve) == preserve

(***************************************************************************)
(* mulle_objc_gdb_lookup_implementation.  Of the arguments the call type   *)
(* says which are used: 0 and default, the class of the object; 1, the     *)
(* class given; 2, the class and the method that the superid stands for,   *)
(* searched from the superclass on, and not the methodid.  The test of the *)
(* id looks at the constant MULLE_OBJC_NO_METHODID, which is never sane:   *)
(* whatever id is passed is searched for.                                  *)
(***************************************************************************)
LookupImplementation(obj, methodid, class, superid, calltype) ==
  /\ \E e \in Errnos : errno' = IF obj = None THEN errno ELSE Preserved(e, errno)
  /\ answer' = IF obj = None THEN NULL
               ELSE CASE calltype = 1 -> Implementation(class, methodid)
                      [] calltype = 2 -> Implementation(Super[superid[1]], superid[2])
                      [] OTHER        -> Implementation(obj, methodid)
  /\ UNCHANGED <<loaded, filled>>

\* any other call type is as 0
Implementations ==
  \E obj \in loaded \union {None}, class \in loaded, methodid \in MethodIds, calltype \in 0 .. 2 :
    LookupImplementation(obj, methodid, class, <<class, methodid>>, calltype)

Names ==
  \/ \E name \in Classes : LookupClass(name)
  \/ \E methodid \in MethodIds : LookupSelector(methodid)
  \/ \E methodid \in MethodIds \union {None} : SelGetAnyUid(methodid)

TypeOK == /\ filled \subseteq Cached
          /\ answer \in (loaded \union {None}) \X (MethodIds \union {None})
==============================================================================
