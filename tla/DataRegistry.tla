---------------------------- MODULE DataRegistry -----------------------------
(***************************************************************************)
(* The registry of the game's data (sgame/sregistry.c) and the list with a *)
(* hash table it is kept in (sutil/shashlist.c).                           *)
(*                                                                         *)
(* A registry is a record; its operators take one and return what becomes  *)
(* of it.  A pointer to an item is the item's key.  The items are linked   *)
(* three times: forwards and backwards in the order of their keys, and     *)
(* along the collision chain of their bucket.                              *)
(***************************************************************************)
EXTENDS Integers, Sequences, FiniteSets, SequencesExt, Functions

CONSTANTS
    MaxKey,  \* bound: the keys are 0 .. MaxKey
    Bucket,  \* the places of the hash table
    Hash     \* shash: the place of a key

Key == 0 .. MaxKey
NULL == -1  \* no item; also the key that is no key

ASSUME RegistryAssumption ==
    /\ MaxKey \in Nat
    /\ Hash \in [Key -> Bucket]

FirstClass == 2  \* SHASHLIST_FIRST_CLASS

\* shashlist_new allocates the places of the hash table and stores nothing in
\* them.  NULL stands for what is there as long as nobody follows it: who
\* does has to ask first whether the memory was clear (Definitions.stray).
EmptyRegistry ==
    [head |-> NULL, tail |-> NULL, hash |-> [b \in Bucket |-> NULL],
     item |-> [k \in {} |-> NULL], nextclass |-> FirstClass, nextkey |-> 0]

Registered(reg) == DOMAIN reg.item

\* The items from one on, along "next", "prev" or "chain".
Followed(reg, s, link) ==
    IF s.next = NULL THEN s
    ELSE [keys |-> Append(s.keys, s.next), next |-> reg.item[s.next][link]]

Along(reg, k, link) ==
    LET walk[n \in 0 .. Cardinality(Registered(reg))] ==
            IF n = 0 THEN [keys |-> <<>>, next |-> k] ELSE Followed(reg, walk[n - 1], link)
    IN  walk[Cardinality(Registered(reg))].keys

\* The first of a sequence of items that is among some, and all that are.
FirstOf(keys, some) ==
    LET n == SelectInSeq(keys, LAMBDA k : k \in some) IN IF n = 0 THEN NULL ELSE keys[n]
Among(keys, some) ==
    LET kept[n \in 0 .. Len(keys)] ==
            IF n = 0 THEN <<>>
            ELSE IF keys[n] \in some THEN Append(kept[n - 1], keys[n]) ELSE kept[n - 1]
    IN  kept[Len(keys)]

-----------------------------------------------------------------------------
(* Finding.                                                                *)

FindByInt(reg, key) ==
    IF key < 0 THEN NULL
    ELSE FirstOf(Along(reg, reg.hash[Hash[key]], "chain"), {key})

\* The next item, or the first one after NULL, in either direction, that is
\* of the class and passes the test (_sc_registry_internal_iter); a test is
\* given by the keys that pass it.
Iterate(reg, k, class, direction, passing) ==
    LET link  == IF direction = "forward" THEN "next" ELSE "prev"
        end   == IF direction = "forward" THEN reg.head ELSE reg.tail
        start == IF k = NULL THEN end ELSE reg.item[k][link]
    IN  FirstOf(Along(reg, start, link), {j \in passing : reg.item[j].class = class})

FindFirst(reg, class, direction, passing) == Iterate(reg, NULL, class, direction, passing)

\* A key that is not found is no item: the search starts over.
FindNext(reg, class, key, direction, passing) ==
    Iterate(reg, FindByInt(reg, key), class, direction, passing)

\* What an iterator visits whose test takes everything.
OfClass(reg, class) ==
    Among(Along(reg, reg.head, "next"), {k \in Registered(reg) : reg.item[k].class = class})

-----------------------------------------------------------------------------
(* Adding and removing.                                                    *)

\* Fault: the bucket holds nothing but the new item.
ChainedAnew(reg, key) == [reg EXCEPT !.hash[Hash[key]] = key]

\* The end of the collision chain.
Chained(reg, key) ==
    LET chain == Along(reg, reg.hash[Hash[key]], "chain")
    IN  IF chain = <<>> THEN [reg EXCEPT !.hash[Hash[key]] = key]
        ELSE [reg EXCEPT !.item[Last(chain)].chain = key]

\* The item after which a key belongs; the head, too, is never passed over,
\* whatever its key.
PlaceFor(reg, key) ==
    LET list == Along(reg, reg.head, "next")
        n == SelectInSeq(Tail(list), LAMBDA k : k > key)
    IN  IF n = 0 THEN Last(list) ELSE list[n]

Linked(reg, key, class, info) ==
    LET node(prev, next) == [class |-> class, info |-> info, prev |-> prev, next |-> next,
                             chain |-> NULL]
    IN  IF reg.head = NULL
        THEN [reg EXCEPT !.head = key, !.tail = key, !.item = [k \in {key} |-> node(NULL, NULL)]]
        ELSE LET at   == PlaceFor(reg, key)
                 next == reg.item[at].next
                 old  == [reg.item EXCEPT ![at].next = key]
                 new  == [reg EXCEPT !.item = [k \in Registered(reg) \cup {key} |->
                                                  IF k = key THEN node(at, next) ELSE old[k]]]
             IN  IF next = NULL THEN [new EXCEPT !.tail = key]
                 ELSE [new EXCEPT !.item[next].prev = key]

\* A key is registered once.
CanInsert(reg, key) == key >= 0 /\ (reg.head # NULL => PlaceFor(reg, key) # key)

InsertByInt(reg, key, class, info) == Chained(Linked(reg, key, class, info), key)

\* shashlist_remove_by_int of a key that is registered.
Unchained(reg, key) ==
    LET chain == Along(reg, reg.hash[Hash[key]], "chain")
        after == reg.item[key].chain
    IN  IF Head(chain) = key THEN [reg EXCEPT !.hash[Hash[key]] = after]
        ELSE [reg EXCEPT !.item[FirstOf(chain, {k \in Registered(reg) : reg.item[k].chain = key})].chain = after]

Unlinked(reg, key) ==
    LET prev == reg.item[key].prev
        next == reg.item[key].next
        one  == IF prev = NULL THEN [reg EXCEPT !.head = next] ELSE [reg EXCEPT !.item[prev].next = next]
    IN  IF next = NULL THEN [one EXCEPT !.tail = prev] ELSE [one EXCEPT !.item[next].prev = prev]

RemoveByInt(reg, key) ==
    IF FindByInt(reg, key) = NULL THEN reg
    ELSE LET loose == Unlinked(Unchained(reg, key), key)
         IN  [loose EXCEPT !.item = Restrict(@, DOMAIN @ \ {key})]
=============================================================================
