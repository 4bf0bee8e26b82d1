----------------------------- MODULE ProductLookup -----------------------------
(***************************************************************************)
(* From product keys to resolvers: ProductResolverIndexHelpersBuilder      *)
(* gives every product of a record the next index of the record's          *)
(* ProductResolverIndexHelper; finalize adds entries without a process     *)
(* name; a TransitionContext leads to a TransitionRecordImpl and its       *)
(* resolver for the index.  All calls come from one thread.                *)
(***************************************************************************)
EXTENDS Naturals, SequencesExt, FiniteSetsExt

CONSTANTS Record,     \* TransitionRecordKeys
          Product,    \* type, module label and instance name of a ProductKey
          NameOrder,  \* the process names as std::map sorts them, "" first
          Provider,   \* what providers offer: sequences of <<record, key>>
          Order,      \* the process name orders given to finalize
          Replica,    \* replication indices of records
          Uninitialized  \* the index that stands for none, the largest

NoName == NameOrder[1]
ProcessName == ToSet(NameOrder)
Key == Product \X ProcessName
NoOrder == <<NoName>>

(* There are more indices than keys: an index is an unsigned int, and its *)
(* greatest value is Uninitialized.                                       *)
ASSUME LookupAssumption ==
  /\ NameOrder \in Seq(ProcessName) /\ NameOrder # <<>> /\ IsInjective(NameOrder)
  /\ IsFiniteSet(Key) /\ Uninitialized \in Nat /\ Cardinality(Key) <= Uninitialized
  /\ \A p \in Provider : p \in Seq(Record \X Key)
  /\ \A o \in Order : o \in Seq(ProcessName \ {NoName})

VARIABLES
  helpers_,  \* keyToIndex_ of the helper of each record that has one
  records_,  \* TransitionContext::records_: the replica for a record key
  order,     \* what finalize was last given, if nothing was added since
  final,     \* finalize was called
  given      \* history: the keys inserted in each record before that

lookupVars == <<helpers_, records_, order, final, given>>

InitLookup ==
  /\ helpers_ = <<>>
  /\ records_ = <<>>
  /\ order = NoOrder
  /\ final = FALSE
  /\ given = [r \in Record |-> <<>>]

----------------------------------------------------------------------------
(* ProductResolverIndexHelper                                              *)

(* map[key] = value *)
Put(map, key, value) ==
  [k \in DOMAIN map \cup {key} |-> IF k = key THEN value ELSE map[k]]

(* Mutant of InsertKey: no look whether the key exists. *)
InsertKeyAgain(keyToIndex, key) ==
  [threw |-> FALSE, map |-> Put(keyToIndex, key, Cardinality(DOMAIN keyToIndex))]

InsertKey(keyToIndex, key) ==
  IF key \in DOMAIN keyToIndex THEN [threw |-> TRUE, map |-> keyToIndex]
  ELSE [threw |-> FALSE, map |-> Put(keyToIndex, key, Cardinality(DOMAIN keyToIndex))]

GetIndex(keyToIndex, key) ==
  IF key \in DOMAIN keyToIndex THEN keyToIndex[key] ELSE Uninitialized

(* std::find - begin: one past the last for a name that is not there. *)
Position(names, name) ==
  LET places == {i \in DOMAIN names : names[i] = name}
  IN IF places = {} THEN Len(names) + 1 ELSE Min(places)

(* Mutant of Preferred: the comparison the other way round. *)
PreferredLast(names, name, first) ==
  first = NoName \/ Position(names, name) > Position(names, first)

(* An empty first means that nothing was found yet, or the key itself.     *)
Preferred(names, name, first) ==
  first = NoName \/ Position(names, name) < Position(names, first)

(* The entry of defaultLookup: a pass over the processes of the product in *)
(* the order of the map.                                                   *)
DefaultEntry(keyToIndex, product, names) ==
  LET prod[i \in 0..Len(NameOrder)] ==
        IF i = 0 THEN [first |-> NoName, second |-> Uninitialized]
        ELSE IF /\ <<product, NameOrder[i]>> \in DOMAIN keyToIndex
                /\ Preferred(names, NameOrder[i], prod[i - 1].first)
             THEN [first |-> NameOrder[i], second |-> keyToIndex[<<product, NameOrder[i]>>]]
             ELSE prod[i - 1]
  IN prod[Len(NameOrder)].second

FinalizeHelper(keyToIndex, names) ==
  [k \in DOMAIN keyToIndex \cup {<<key[1], NoName>> : key \in DOMAIN keyToIndex} |->
     IF k[2] = NoName THEN DefaultEntry(keyToIndex, k[1], names) ELSE keyToIndex[k]]

----------------------------------------------------------------------------
(* ProductResolverIndexHelpersBuilder                                      *)

UsedRecords == DOMAIN helpers_

HelperOf(all, r) == IF r \in DOMAIN all THEN all[r] ELSE <<>>

(* One key of one record; after an exception nothing more is done. *)
AddOne(acc, offer) ==
  LET r == offer[1]
      inserted == InsertKey(HelperOf(acc.helpers, r), offer[2]) IN
  IF acc.threw THEN acc
  ELSE [threw |-> inserted.threw,
        helpers |-> Put(acc.helpers, r, inserted.map),
        given |-> IF inserted.threw THEN acc.given
                  ELSE [acc.given EXCEPT ![r] = Append(@, offer[2])]]

AddAll(before, offers) ==
  LET upTo[i \in 0..Len(offers)] ==
        IF i = 0 THEN before ELSE AddOne(upTo[i - 1], offers[i])
  IN upTo[Len(offers)]

(* A key that exists throws from the middle of the call: what came before  *)
(* it stays inserted.                                                      *)
DetermineProductsFrom(provider) ==
  LET end == AddAll([threw |-> FALSE, helpers |-> helpers_, given |-> given], provider)
  IN /\ helpers_' = end.helpers
     /\ order' = NoOrder
     /\ given' = IF final THEN given ELSE end.given
     /\ UNCHANGED <<records_, final>>

Finalize(names) ==
  /\ helpers_' = [r \in UsedRecords |-> FinalizeHelper(helpers_[r], names)]
  /\ order' = names
  /\ final' = TRUE
  /\ UNCHANGED <<records_, given>>

----------------------------------------------------------------------------
(* TransitionContext and TransitionRecordImpl                              *)

(* insert: emplace keeps the record that is there. *)
InsertRecord(r, replica) ==
  /\ r \in UsedRecords
  /\ records_' = IF r \in DOMAIN records_ THEN records_ ELSE Put(records_, r, replica)
  /\ UNCHANGED <<helpers_, order, final, given>>

(* TransitionRecordImpl::get with an index of its helper; its resolvers    *)
(* were made in the order in which the keys were inserted.                 *)
Resolver(r, index) ==
  IF index = Uninitialized \/ r \notin DOMAIN records_ THEN "nullptr"
  ELSE given[r][index + 1]

NextLookup ==
  \/ \E p \in Provider : DetermineProductsFrom(p)
  \/ \E names \in Order : Finalize(names)
  \/ \E r \in Record, replica \in Replica : InsertRecord(r, replica)

LookupSpec == InitLookup /\ [][NextLookup]_lookupVars

----------------------------------------------------------------------------
(* A product that was inserted with a process name is found through the    *)
(* context under the full key, and no other is: its index stays what it    *)
(* was, whatever was inserted in vain or added by finalize.                *)
LookupFindsProduct ==
  \A r \in DOMAIN records_ : \A i \in DOMAIN given[r] :
    given[r][i][2] # NoName
      => Resolver(r, GetIndex(helpers_[r], given[r][i])) = given[r][i]

(* Without a process name one gets the product of the process that comes   *)
(* first in the order given to finalize; if none of them is in it, of the  *)
(* one that sorts first.                                                   *)
DefaultIsFirstInOrder ==
  order # NoOrder =>
    \A r \in UsedRecords, p \in Product :
      LET names == {n \in ProcessName \ {NoName} : <<p, n>> \in DOMAIN helpers_[r]}
          wins(n, m) == IF {n, m} \cap ToSet(order) = {}
                        THEN Position(NameOrder, n) <= Position(NameOrder, m)
                        ELSE Position(order, n) <= Position(order, m)
      IN \A n \in names :
           (\A m \in names : wins(n, m))
             => GetIndex(helpers_[r], <<p, NoName>>) = helpers_[r][<<p, n>>]
=============================================================================
