-------------------------------- MODULE Context --------------------------------
(***************************************************************************)
(* context::Context: the first Scope calls the initialising callbacks, the *)
(* last one the others, under contextMutex; on Android it holds the Java   *)
(* machine and a global reference to the application meanwhile.            *)
(*                                                                         *)
(* Callbacks are registered without the mutex; the library does so before  *)
(* main (NetworkAndroid.cpp:44), here it may happen at any time when       *)
(* nobody goes through them, which would be a data race.  What a callback  *)
(* does is external.                                                       *)
(***************************************************************************)
EXTENDS Naturals, Sequences

CONSTANTS
    Scopes,         \* the Scope objects, each with a thread of its own
    WithVM,         \* those of them made of a Java machine
    Callbacks,      \* pairs of callbacks
    Nobody

ContextAssumption == WithVM \subseteq Scopes /\ Nobody \notin Scopes

VARIABLES
    counter,        \* contextInstanceCounter
    contextMutex,   \* who holds it
    vectors,        \* initVector and deinitVector, which grow together
    fired,          \* how many callbacks have been called by who holds it
    javaVM,         \* whether it is set
    context,        \* the reference to the application
    scope,          \* where each Scope is
    up,             \* history: the callbacks that have initialised something
    late            \* history: those registered while there were scopes

contextVars == <<counter, contextMutex, vectors, fired, javaVM, context, scope, up, late>>

Registered == {vectors[i] : i \in DOMAIN vectors}

TypeOK ==
    /\ counter \in Nat /\ contextMutex \in Scopes \cup {Nobody}
    /\ Registered \subseteq Callbacks /\ fired \in 0..Len(vectors)
    /\ javaVM \in BOOLEAN /\ context \in {"null", "global", "deleted"}
    /\ scope \in [Scopes -> {"none", "enter", "init", "alive", "leave", "deinit", "gone"}]
    /\ up \subseteq Callbacks /\ late \subseteq Callbacks

Init ==
    /\ counter = 0 /\ contextMutex = Nobody /\ vectors = <<>> /\ fired = 0
    /\ javaVM = FALSE /\ context = "null"
    /\ scope = [s \in Scopes |-> "none"] /\ up = {} /\ late = {}

-----------------------------------------------------------------------------

addInitializeCallbacks(c) ==
    /\ contextMutex = Nobody /\ c \notin Registered
    /\ vectors' = Append(vectors, c)
    /\ late' = IF counter > 0 THEN late \cup {c} ELSE late
    /\ UNCHANGED <<counter, contextMutex, fired, javaVM, context, scope, up>>

(* A constructor or a destructor is called, and waits for the mutex. *)
Call(s) ==
    /\ \/ scope[s] = "none" /\ scope' = [scope EXCEPT ![s] = "enter"]
       \/ scope[s] = "alive" /\ scope' = [scope EXCEPT ![s] = "leave"]
    /\ UNCHANGED <<counter, contextMutex, vectors, fired, javaVM, context, up, late>>

(* Without a Java machine what there is, is forgotten, but not context.    *)
init(s) ==
    /\ javaVM' = (s \in WithVM)
    /\ context' = IF s \in WithVM THEN "global" ELSE context

Enter(s) ==
    /\ scope[s] = "enter" /\ contextMutex = Nobody
    /\ counter' = counter + 1 /\ fired' = 0
    /\ IF counter = 0
       THEN init(s) /\ contextMutex' = s /\ scope' = [scope EXCEPT ![s] = "init"]
       ELSE scope' = [scope EXCEPT ![s] = "alive"] /\ UNCHANGED <<contextMutex, javaVM, context>>
    /\ UNCHANGED <<vectors, up, late>>

(* initialize and deinitialize go through their vectors in one order; the  *)
(* flag gDeInitializing is clear whenever the mutex is free.               *)
initialize(s) ==
    /\ scope[s] = "init"
    /\ \/ /\ fired < Len(vectors)
          /\ up' = up \cup {vectors[fired + 1]} /\ fired' = fired + 1
          /\ UNCHANGED <<scope, contextMutex>>
       \/ /\ fired = Len(vectors)
          /\ scope' = [scope EXCEPT ![s] = "alive"] /\ contextMutex' = Nobody
          /\ UNCHANGED <<up, fired>>
    /\ UNCHANGED <<counter, vectors, javaVM, context, late>>

(* The reference is deleted as long as the machine is known. *)
deinit ==
    /\ context' = IF javaVM THEN "deleted" ELSE context
    /\ javaVM' = FALSE

Leave_NeverDeinit(s) ==
    /\ scope[s] = "leave" /\ contextMutex = Nobody
    /\ counter' = counter - 1 /\ fired' = 0
    /\ scope' = [scope EXCEPT ![s] = "gone"] /\ UNCHANGED <<contextMutex, javaVM, context>>
    /\ UNCHANGED <<vectors, up, late>>
Leave(s) ==
    /\ scope[s] = "leave" /\ contextMutex = Nobody
    /\ counter' = counter - 1 /\ fired' = 0
    /\ IF counter = 1
       THEN deinit /\ contextMutex' = s /\ scope' = [scope EXCEPT ![s] = "deinit"]
       ELSE scope' = [scope EXCEPT ![s] = "gone"] /\ UNCHANGED <<contextMutex, javaVM, context>>
    /\ UNCHANGED <<vectors, up, late>>

deinitialize(s) ==
    /\ scope[s] = "deinit"
    /\ \/ /\ fired < Len(vectors)
          /\ up' = up \ {vectors[fired + 1]} /\ late' = late \ {vectors[fired + 1]}
          /\ fired' = fired + 1
          /\ UNCHANGED <<scope, contextMutex>>
       \/ /\ fired = Len(vectors)
          /\ scope' = [scope EXCEPT ![s] = "gone"] /\ contextMutex' = Nobody
          /\ UNCHANGED <<up, late, fired>>
    /\ UNCHANGED <<counter, vectors, javaVM, context>>

-----------------------------------------------------------------------------

ScopeStep(s) == Enter(s) \/ initialize(s) \/ Leave(s) \/ deinitialize(s)

Next ==
    \/ \E c \in Callbacks : addInitializeCallbacks(c)
    \/ \E s \in Scopes : Call(s) \/ ScopeStep(s)

(* Callbacks return, and a mutex that is free is taken. *)
Spec == Init /\ [][Next]_contextVars
FairSpec == Spec /\ WF_contextVars(\E s \in Scopes : ScopeStep(s))

-----------------------------------------------------------------------------
(* Properties *)

(* Whoever has a Scope has what the callbacks initialise, whichever scopes *)
(* come and go meanwhile; without any scope nothing is left initialised    *)
(* (Scope and ~Scope).  Callbacks registered while there are scopes are    *)
(* told of their end only (Context.cpp:91).                                *)
ScopeInitialised ==
    /\ \A s \in Scopes : scope[s] \in {"alive", "leave"} => Registered \ late \subseteq up
    /\ counter = 0 /\ contextMutex = Nobody => up = {} /\ ~javaVM

(* Where there is a Java machine there is an application, and a Scope.     *)
(* The reverse is not so: after a Scope of a machine, context is deleted   *)
(* but still there (Context.cpp:123).                                      *)
MachineMeansContext == javaVM => context = "global" /\ counter > 0

(* Constructors and destructors return. *)
ScopesReturn == \A s \in Scopes : scope[s] \in {"none", "alive", "gone"}
EveryScopeReturns == []<>ScopesReturn
=============================================================================
