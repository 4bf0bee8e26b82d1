------------------------------- MODULE LibraryMC -------------------------------
(***************************************************************************)
(* Small instances for TLC of the modules of five classes that share       *)
(* nothing.  A behaviour exercises one of them, its subject, and the       *)
(* others stay as they are.                                                *)
(***************************************************************************)
EXTENDS OutputFileStream, AddOnlyContainer, ProductLookup, TypeNames, ExceptionText, TLC

CONSTANTS r1, r2, p1, p2

VARIABLE subject

----------------------------------------------------------------------------
(* Process names sort a, b, c.  A provider offers a product of one process *)
(* or of two, in one record or in two, and perhaps one without process.    *)
Names == <<"", "a", "b", "c">>
One(r, p, n) == <<r, <<p, n>>>>
SomeProviders ==
  {<<One(r1, p1, "")>>, <<One(r1, p1, "a")>>,
   <<One(r1, p1, "b"), One(r1, p2, "a"), One(r2, p1, "c")>>,
   <<One(r1, p2, "c"), One(r1, p1, "c"), One(r2, p1, "c")>>,
   <<One(r2, p1, "b"), One(r2, p1, "b"), One(r1, p2, "b")>>}
SomeOrders == {<<>>, <<"c">>, <<"b", "a">>, <<"c", "b", "a">>}

----------------------------------------------------------------------------
(* Types to demangle: leaves, containers of them, containers of those.     *)
Named(name) == Type(name, name, <<>>)
Integer == Named(<<"int">>)
Leaves ==
  {Integer,
   Type(<<"long long">>, <<"Long64_t">>, <<>>),
   Type(<<"unsigned ", "long long">>, <<"ULong64_t">>, <<>>),
   Type(<<"std::", "__cxx11::", "string">>, <<"std::", "string">>, <<>>),
   ArrayOf(Integer, "3")}
Std(name, args) == Type(<<"std::", name>>, <<"std::", name>>, args)
Inner(name, args) == Type(<<"std::", "__1::", name>>, <<"std::", name>>, args)
Allocator(t) == Std("allocator", <<t>>)
Vector(t) == Std("vector", <<t, Allocator(t)>>)
Set(t) == Inner("set", <<t, Std("less", <<t>>), Allocator(t)>>)
Map(k, t) == Std("map", <<k, t, Std("less", <<k>>), Allocator(Std("pair", <<Const(k), t>>))>>)
Array(t) == Std("array", <<t, Type(<<"5", "ul">>, <<"5">>, <<>>)>>)
Pair(t, u) == Std("pair", <<t, u>>)
Of(types) == {Vector(t) : t \in types} \cup {Set(t) : t \in types} \cup {Array(t) : t \in types}
               \cup {Map(Integer, t) : t \in types} \cup {Pair(Const(t), Integer) : t \in types}
Maps == {Map(k, t) : k, t \in Leaves}
SomeTypes == Leaves \cup Of(Leaves) \cup Maps
               \cup Of({Const(t) : t \in Leaves} \cup {Vector(Integer), Set(Integer), Const(Set(Integer)),
                         Array(Integer), Map(Integer, Integer), Const(Map(Integer, Vector(Integer)))})

----------------------------------------------------------------------------
others == <<streamVars, containerVars, lookupVars, nameVars, exceptionVars>>

InitLibrary ==
  /\ subject \in {"stream", "container", "lookup", "names", "exception"}
  /\ InitStream
  /\ InitContainer
  /\ InitLookup
  /\ InitException
  /\ IF subject = "names" THEN InitNames ELSE type = Integer /\ text = <<>> /\ pass = 0

NextLibrary ==
  /\ UNCHANGED subject
  /\ \/ /\ subject = "stream"
        /\ NextStream
        /\ UNCHANGED <<containerVars, lookupVars, nameVars, exceptionVars>>
     \/ /\ subject = "container"
        /\ NextContainer
        /\ UNCHANGED <<streamVars, lookupVars, nameVars, exceptionVars>>
     \/ /\ subject = "lookup"
        /\ NextLookup
        /\ UNCHANGED <<streamVars, containerVars, nameVars, exceptionVars>>
     \/ /\ subject = "names"
        /\ typeDemangle
        /\ UNCHANGED <<streamVars, containerVars, lookupVars, exceptionVars>>
     \/ /\ subject = "exception"
        /\ NextException
        /\ UNCHANGED <<streamVars, containerVars, lookupVars, nameVars>>

LibrarySpec == InitLibrary /\ [][NextLibrary]_<<subject, others>>
=============================================================================
