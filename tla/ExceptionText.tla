----------------------------- MODULE ExceptionText -----------------------------
(***************************************************************************)
(* cms::Exception: what its constructors, copies, assignments and appends  *)
(* do to the message, the context and the additional information, and what *)
(* explainSelf says of them.  Text is a sequence of fragments.             *)
(***************************************************************************)
EXTENDS Naturals, Sequences, SequencesExt

CONSTANTS Object,    \* exception objects
          Category,
          Fragment,  \* text that ends with neither a space nor a line end
          MaxCalls   \* bound on the calls of a behaviour

(* The words explainSelf and the constructors add themselves. *)
Framing == {"An exception of category", "Exception Message:", "Additional Info:", " ", "\n"}

(* What was said can be told apart from them. *)
ASSUME TextAssumption == Fragment \cap (Category \cup Framing) = {}

VARIABLES
  exception,  \* the members of each object; <<>> for one not constructed
  told,       \* history: the fragments it got as message, context or
              \* information, itself or through what it was made from
  calls

exceptionVars == <<exception, told, calls>>

Wording == {<<>>} \cup {<<f>> : f \in Fragment} \cup (Fragment \X {" ", "\n"})

InitException ==
  /\ exception = [x \in Object |-> <<>>]
  /\ told = [x \in Object |-> {}]
  /\ calls = 0

Made(x) == exception[x] # <<>>
Words(text) == ToSet(text) \cap Fragment

Becomes(x, e, said) ==
  /\ calls < MaxCalls
  /\ calls' = calls + 1
  /\ exception' = [exception EXCEPT ![x] = e]
  /\ told' = [told EXCEPT ![x] = said]

----------------------------------------------------------------------------
(* Construction                                                            *)

(* init: a space separates the message from what is appended. *)
Start(message) ==
  IF message = <<>> \/ Last(message) \in {" ", "\n"} THEN message ELSE Append(message, " ")

Construct(x, category, message) ==
  /\ ~Made(x)
  /\ Becomes(x, [ost |-> Start(message), category |-> category, context |-> <<>>,
                 info |-> <<>>, printed |-> FALSE],
             Words(message))

(* Mutant of Wrapped: the new exception has the message only. *)
WrappedMessage(category, message, e) ==
  [ost |-> (IF message # <<>> /\ Last(message) # "\n" THEN Append(message, "\n") ELSE message) \o e.ost,
   category |-> category, context |-> <<>>, info |-> e.info, printed |-> FALSE]

(* The constructor from another exception, on a line of its own. *)
Wrapped(category, message, e) ==
  [ost |-> (IF message # <<>> /\ Last(message) # "\n" THEN Append(message, "\n") ELSE message) \o e.ost,
   category |-> category, context |-> e.context, info |-> e.info, printed |-> FALSE]

Wrap(x, category, message, y) ==
  /\ ~Made(x)
  /\ Made(y)
  /\ Becomes(x, Wrapped(category, message, exception[y]), Words(message) \cup told[y])

(* The copy constructor, for clone and rethrow too. *)
Copied(e) ==
  [ost |-> e.ost, category |-> e.category, context |-> e.context, info |-> e.info,
   printed |-> e.printed]

Clone(x, y) ==
  /\ ~Made(x)
  /\ Made(y)
  /\ Becomes(x, Copied(exception[y]), told[y])

(* swap, in operator=, appends the message and exchanges the rest: the     *)
(* text x had before stays in front.                                       *)
Swapped(e, temp) == [temp EXCEPT !.ost = e.ost \o temp.ost]

Assign(x, y) ==
  /\ Made(x)
  /\ Made(y)
  /\ Becomes(x, Swapped(exception[x], Copied(exception[y])),
             Words(exception[x].ost) \cup told[y])

----------------------------------------------------------------------------
(* Additions and removals                                                  *)

Update(x, e, said) == Made(x) /\ Becomes(x, e, said)

AppendText(x, f) ==
  Update(x, [exception[x] EXCEPT !.ost = Append(@, f)], told[x] \cup {f})

(* operator<<, format and vformat; endl is a manipulator, others add no text. *)
Insert(x, f) ==
  \/ AppendText(x, f)
  \/ Update(x, [exception[x] EXCEPT !.ost = Append(@, "\n")], told[x])

AppendException(x, y) ==
  /\ Made(y)
  /\ Update(x, [exception[x] EXCEPT !.ost = @ \o exception[y].ost],
            told[x] \cup Words(exception[y].ost))

AddContext(x, f) ==
  Update(x, [exception[x] EXCEPT !.context = Append(@, f)], told[x] \cup {f})

AddAdditionalInfo(x, f) ==
  Update(x, [exception[x] EXCEPT !.info = Append(@, f)], told[x] \cup {f})

(* What is left when one part is replaced. *)
SetContext(x, context) ==
  Update(x, [exception[x] EXCEPT !.context = context],
         ToSet(context) \cup ToSet(exception[x].info) \cup Words(exception[x].ost))

SetAdditionalInfo(x, info) ==
  Update(x, [exception[x] EXCEPT !.info = info],
         ToSet(exception[x].context) \cup ToSet(info) \cup Words(exception[x].ost))

ClearContext(x) == SetContext(x, <<>>)

ClearAdditionalInfo(x) == SetAdditionalInfo(x, <<>>)

ClearMessage(x) ==
  Update(x, [exception[x] EXCEPT !.ost = <<>>],
         ToSet(exception[x].context) \cup ToSet(exception[x].info))

SetAlreadyPrinted(x) == Update(x, [exception[x] EXCEPT !.printed = TRUE], told[x])

----------------------------------------------------------------------------
(* explainSelf: the header with the contexts, the last one added first,    *)
(* the message, and the additional information in the same order.          *)
Header(e) ==
  <<"An exception of category", e.category>> \o Reverse(e.context)

CentralMessage(e) ==
  IF e.ost = <<>> THEN <<>>
  ELSE <<"Exception Message:">> \o e.ost \o (IF Last(e.ost) = "\n" THEN <<>> ELSE <<"\n">>)

explainSelf(e) ==
  Header(e) \o CentralMessage(e)
    \o (IF e.info = <<>> THEN <<>> ELSE <<"Additional Info:">> \o Reverse(e.info))

NextException ==
  \E x \in Object :
    \/ \E c \in Category, m \in Wording : Construct(x, c, m)
    \/ \E y \in Object : \/ \E c \in Category, m \in Wording : Wrap(x, c, m, y)
                         \/ Clone(x, y) \/ Assign(x, y) \/ AppendException(x, y)
    \/ \E f \in Fragment :
         \/ AppendText(x, f) \/ Insert(x, f) \/ AddContext(x, f) \/ AddAdditionalInfo(x, f)
         \/ SetContext(x, <<f>>) \/ SetAdditionalInfo(x, <<f>>)
    \/ ClearMessage(x) \/ ClearContext(x) \/ ClearAdditionalInfo(x) \/ SetAlreadyPrinted(x)

ExceptionSpec == InitException /\ [][NextException]_exceptionVars

----------------------------------------------------------------------------
(* Through any sequence of copies, wrappers, assignments and additions     *)
(* explainSelf shows every text that an exception was given, itself or     *)
(* through what it was made from, and no text that it was not given.       *)
NothingSaidIsLost ==
  \A x \in Object : Made(x) => Words(explainSelf(exception[x])) = told[x]
=============================================================================
