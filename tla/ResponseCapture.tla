--------------------------- MODULE ResponseCapture ---------------------------
(***************************************************************************)
(* Capturing what a native command says while it runs (response_buffer.hpp *)
(* and response_capture.cpp).  A hook on the game's reply method redirects *)
(* the replies of exactly the command instance that the current thread is  *)
(* executing into that execution's buffer; all other replies pass through  *)
(* to the original method.                                                 *)
(*                                                                         *)
(* A message is the sequence of its UTF-16 units (module Utf8Text), and    *)
(* "0" the terminating NUL, which the game's strings count.  Control       *)
(* characters, a NUL inside too, are turned into blanks on the way.        *)
(***************************************************************************)
EXTENDS Integers, Sequences, FiniteSets, SequencesExt, Utf8Text

CONSTANTS
    Threads,
    Commands,           \* command instances
    Messages,           \* the messages the game may send
    MaxBytes,           \* ResponseScope::max_bytes, 65536
    MaxMessages,        \* ResponseScope::max_messages, 128
    MaxDepth,           \* bound: executions nested in one thread
    MaxReplies          \* bound: calls of the reply method in a behaviour

ASSUME BoundsAssumption ==
    /\ {MaxBytes, MaxMessages, MaxDepth, MaxReplies} \subseteq Nat \ {0}
    /\ \A m \in Messages : m \in Seq({"a", "e", "h", "l", "0"})

VARIABLES
    hooked,             \* the reply method is detoured to receive
    scopes,             \* per thread: the ResponseScopes on its stack, last one innermost
    current,            \* per thread: the pointer ResponseScope::current
    calls               \* history: every call of the reply method, and where it went

vars == <<hooked, scopes, current, calls>>

\* A pointer says on whose stack a scope lies, and where.
nullptr == << >>

Pointers == {nullptr} \cup (Threads \X (1..MaxDepth))

-----------------------------------------------------------------------------
(* Text *)

Newline == Byte("newline", 1)

Blank(unit) == IF unit = "0" THEN "a" ELSE unit

\* The system's conversion (WideCharToMultiByte with WC_ERR_INVALID_CHARS) is
\* external: it refuses a surrogate without its partner, and writes the bytes
\* of all other text (Utf8).
WellFormed(units) ==
    /\ \A i \in DOMAIN units :
            units[i] = "h" => i < Len(units) /\ units[i + 1] = "l"
    /\ \A i \in DOMAIN units : units[i] = "l" => i > 1 /\ units[i - 1] = "h"

\* receive reads at most 65538 units, then drops the terminator of a complete
\* message, or the first half of a pair at the cut of an incomplete one.
WidePrefix == MaxBytes + 2

\* A bounded read of one unit less.
WidePrefixOneShort(units) ==
    LET n == Smaller(Len(units), MaxBytes + 1)
        drop == \/ n > 0 /\ n = Len(units) /\ units[n] = "0"
                \/ n > 0 /\ n < Len(units) /\ units[n] = "h"
    IN  [i \in 1..(IF drop THEN n - 1 ELSE n) |-> Blank(units[i])]

ReadMessage(units) ==
    LET n == Smaller(Len(units), WidePrefix)
        drop == \/ n > 0 /\ n = Len(units) /\ units[n] = "0"
                \/ n > 0 /\ n < Len(units) /\ units[n] = "h"
    IN  [i \in 1..(IF drop THEN n - 1 ELSE n) |-> Blank(units[i])]

\* What a message says in full.
FullText(units) ==
    LET n == IF units # << >> /\ Last(units) = "0" THEN Len(units) - 1 ELSE Len(units)
    IN  Utf8([i \in 1..n |-> Blank(units[i])])

\* Messages are separated by a newline where there is none yet.
Separator(output, text) ==
    IF output # << >> /\ text # << >> /\ Last(output) # Newline
    THEN <<Newline>> ELSE << >>

-----------------------------------------------------------------------------
(* ResponseScope *)

\* "said" is a history: the text that the messages redirected to the scope
\* make when they are put together in full.
NewScope(t, c) ==
    [command |-> c, previous |-> current[t], output |-> << >>, count |-> 0,
     cut |-> FALSE, failed |-> FALSE, said |-> << >>]

Record(scope, units) ==
    [scope EXCEPT !.said = @ \o Separator(@, FullText(units)) \o FullText(units)]

Failure(scope) == [scope EXCEPT !.failed = TRUE]

\* accept: too many messages, or no room for the separator, and the message
\* is dropped; otherwise as much of it as fits is appended.
Accepted(scope, text) ==
    LET prefix == scope.output \o Separator(scope.output, text)
        n == Utf8PrefixSize(text, MaxBytes - Len(prefix))
    IN  IF scope.count + 1 > MaxMessages \/ Len(prefix) > MaxBytes
        THEN [scope EXCEPT !.count = @ + 1, !.cut = TRUE]
        ELSE [scope EXCEPT !.count = @ + 1,
                           !.output = prefix \o SubSeq(text, 1, n),
                           !.cut = @ \/ n # Len(text)]

\* The buffer may fail to grow, before or after the separator.
AcceptFailures(scope, text) ==
    {[scope EXCEPT !.count = @ + 1, !.failed = TRUE,
                   !.output = @ \o separator] :
        separator \in {s \in {<< >>, Separator(scope.output, text)} :
                        /\ scope.count < MaxMessages
                        /\ Len(scope.output \o s) <= MaxBytes}}

\* What the constructor makes of current, and what it would without
\* thread_local.
EnteredByAll(t) == [u \in Threads |-> <<t, Len(scopes[t]) + 1>>]

Entered(t) == [current EXCEPT ![t] = <<t, Len(scopes[t]) + 1>>]

\* The scope that current points at.
Current(t) == scopes[current[t][1]][current[t][2]]

Matches(t, c) == current[t] # nullptr /\ Current(t).command = c

\* The commands that a thread is executing, outermost first.
Executing(t) == [i \in DOMAIN scopes[t] |-> scopes[t][i].command]

Call(t, c, to) ==
    [thread |-> t, command |-> c, executing |-> Executing(t), hooked |-> hooked, to |-> to]

-----------------------------------------------------------------------------

TypeOK ==
    /\ hooked \in BOOLEAN
    /\ scopes \in [Threads -> Seq([command : Commands, previous : Pointers,
                                   output : Seq(Bytes), count : 0..MaxReplies,
                                   cut : BOOLEAN, failed : BOOLEAN,
                                   said : Seq(Bytes)])]
    /\ current \in [Threads -> Pointers]
    /\ calls \in Seq([thread : Threads, command : Commands, executing : Seq(Commands),
                      hooked : BOOLEAN, to : Pointers])

Init ==
    /\ hooked = FALSE
    /\ scopes = [t \in Threads |-> << >>]
    /\ current = [t \in Threads |-> nullptr]
    /\ calls = << >>

\* initialize finds the supported build and its prologue; a build without
\* them leaves the hook out.
Initialize ==
    /\ ~ hooked /\ calls = << >>
    /\ hooked' = TRUE
    /\ UNCHANGED <<scopes, current, calls>>

\* shutdown unhooks, whatever is being executed.
Shutdown ==
    /\ hooked
    /\ hooked' = FALSE
    /\ UNCHANGED <<scopes, current, calls>>

\* An execution with a fresh command instance opens its scope if the hook is
\* ready, and closes it when the native call has returned or raised: scopes
\* are local variables, so that the innermost one goes first.
Execute(t, c) ==
    /\ hooked
    /\ Len(scopes[t]) < MaxDepth
    /\ \A u \in Threads : \A i \in DOMAIN scopes[u] : scopes[u][i].command # c
    /\ scopes' = [scopes EXCEPT ![t] = Append(@, NewScope(t, c))]
    /\ current' = Entered(t)
    /\ UNCHANGED <<hooked, calls>>

Return(t) ==
    /\ scopes[t] # << >>
    /\ current' = [current EXCEPT ![t] = Last(scopes[t]).previous]
    /\ scopes' = [scopes EXCEPT ![t] = Front(@)]
    /\ UNCHANGED <<hooked, calls>>

\* The reply of a command that is not being captured goes to the original
\* method, which no scope stands for.
PassThrough(t, c) ==
    /\ Len(calls) < MaxReplies
    /\ ~ (hooked /\ Matches(t, c))
    /\ calls' = Append(calls, Call(t, c, nullptr))
    /\ UNCHANGED <<hooked, scopes, current>>

\* The reply of the command being captured: read, converted and accepted.
\* Reading or converting can fail, and so can the growing of the buffer.
Receive(t, c, units) ==
    /\ Len(calls) < MaxReplies
    /\ hooked /\ Matches(t, c)
    /\ LET scope == Record(Current(t), units)
           read == ReadMessage(units)
       IN  \E after \in {Failure(scope)} \cup
                (IF WellFormed(read)
                 THEN {Accepted(scope, Utf8(read))} \cup AcceptFailures(scope, Utf8(read))
                 ELSE {}) :
                scopes' = [scopes EXCEPT ![current[t][1]][current[t][2]] = after]
    /\ calls' = Append(calls, Call(t, c, current[t]))
    /\ UNCHANGED <<hooked, current>>

Next ==
    \/ Initialize \/ Shutdown
    \/ \E t \in Threads, c \in Commands :
            \/ Execute(t, c)
            \/ PassThrough(t, c)
            \/ \E units \in Messages : Receive(t, c, units)
    \/ \E t \in Threads : Return(t)

Spec == Init /\ [][Next]_vars

-----------------------------------------------------------------------------

AllScopes == UNION {Range(scopes[t]) : t \in Threads}

\* Nothing is lost without a sign: a scope that reports neither truncation nor
\* failure holds every message in full (ARCHITECTURE.md: "explicit truncation
\* and failure reporting").  The bounded read of receive must not lose what
\* accept would have reported.
NoSilentLoss ==
    \A scope \in AllScopes :
        ~ scope.cut /\ ~ scope.failed => scope.output = scope.said

\* What is captured is at most MaxBytes long and ends with a whole code point
\* ("never cut the continuation bytes of a code point").
BoundedWholeCharacters ==
    \A scope \in AllScopes :
        Len(scope.output) <= MaxBytes /\ EndsWhole(scope.output)

\* A reply is captured by the innermost execution that is open on its own
\* thread when it is made, if that one executes the very command that replies
\* and the hook is there, and reaches the original method otherwise ("the exact
\* currently executing command instance", "Other instances and threads pass
\* through"): the code's chain of pointers agrees with the stack of every
\* thread through nested executions, returns and the loss of the hook.
RepliesFindTheirExecution ==
    \A k \in DOMAIN calls :
        LET call == calls[k]
            depth == Len(call.executing)
        IN  call.to = IF call.hooked /\ depth > 0 /\ call.executing[depth] = call.command
                      THEN <<call.thread, depth>> ELSE nullptr

=============================================================================
