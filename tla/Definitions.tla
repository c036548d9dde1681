----------------------------- MODULE Definitions -----------------------------
(***************************************************************************)
(* Where weapons, accessories and scorings come from: sc_config_new reads  *)
(* the lists that come with the game into the data registry, loading the   *)
(* options adds the user's own, and sc_config_free takes all out again     *)
(* (sgame/saddconf.c, sweapon.c, saccessory.c, seconomy.c, sconfig.c, and  *)
(* sc_phoenix_verify of sphoenix.c).                                       *)
(*                                                                         *)
(* Weapons and accessories are read, counted and walked through by         *)
(* functions that differ in nothing but names, which are one operator      *)
(* here; scorings are never hidden.  Memory is not exhausted, and a file   *)
(* is read item by item: one that cannot be read yields none, with the     *)
(* same result.                                                            *)
(***************************************************************************)
EXTENDS DataRegistry

CONSTANTS
    RootItems,  \* what the lists that come with the game may hold, for each kind
    ListItems,  \* the same of the user's lists
    MaxItems,   \* bound: items in a list
    Sloppy,     \* strsimilar: names with the same value are similar
    ArmsLevel,  \* the arms levels of the weapons window
    Garbage     \* what ph_ch may be before anything is stored in it

Kinds == <<"accessory", "scoring", "weapon">>  \* in the order of sc_config_new
Kind == Range(Kinds)
Flag == {"CHAIN", "SPIDER", "SCATTER", "CONVERT", "DETONATE"}

\* Only a weapon may be a phoenix weapon.
Entry == {e \in [kind : Kind, name : DOMAIN Sloppy, armslevel : Nat, useless : BOOLEAN,
                 indirect : BOOLEAN, ph_fl : SUBSET Flag, child : DOMAIN Sloppy] :
             e.kind # "weapon" => e.ph_fl = {}}

ASSUME DefinitionsAssumption ==
    /\ \A k \in Kind : RootItems[k] \subseteq Entry /\ ListItems[k] \subseteq Entry
    /\ MaxItems \in Nat \ {0}
    /\ "" \in DOMAIN Sloppy
    /\ \A n \in DOMAIN Sloppy : n # "" => Sloppy[n] # Sloppy[""]
    /\ ArmsLevel \subseteq Nat /\ ArmsLevel # {}
    /\ Garbage \subseteq Key \union {NULL} /\ Garbage # {}

VARIABLES
    stage,    \* "create", "options", "play", "free" or "ended"
    at,       \* the kind that stage has come to, an index of Kinds
    read,     \* how many items of the open file have been read; NULL with none open
    found,    \* how many of them have been taken
    reg,      \* the data registry
    conf,     \* the accessory, economy and weapon configs, by kind
    stray,    \* the places of the hash table whose memory was not clear
    lost      \* what was in such a place has been taken for an item

vars == <<stage, at, read, found, reg, conf, stray, lost>>

memory == <<stray, lost>>

None == [class |-> NULL]
Exists(c) == c # None
ItemsOf(k) == IF Exists(conf[k]) THEN OfClass(reg, conf[k].class) ELSE <<>>

-----------------------------------------------------------------------------
(* Looking definitions up.                                                 *)

Rules == {"ARMS", "USELESS", "INDIRECT"}  \* SC_WEAPON_LIMIT_ALL

Viewable(c, info, rules) ==
    /\ "ARMS" \in rules => info.armslevel <= c.armslevel
    /\ "USELESS" \in rules => c.uselessitems \/ ~info.useless
    /\ "INDIRECT" \in rules => ~info.indirect

AllViewable(r, c, rules) == {k \in Registered(r) : Viewable(c, r.item[k].info, rules)}

Count(r, c, rules) == Len(Among(OfClass(r, c.class), AllViewable(r, c, rules)))

\* The class of what the registry finds is not looked at.
Lookup(r, id) == FindByInt(r, id)

\* With SC_*_LIMIT_NONE, as here, nothing is hidden.
LookupByName(r, c, name) ==
    FindFirst(r, c.class, "forward",
              {k \in Registered(r) : Sloppy[r.item[k].info.name] = Sloppy[name]})

First(r, c, rules, direction) ==
    FindFirst(r, c.class, direction, AllViewable(r, c, rules))

\* Fault: past either end the walk goes on at the head.
NextOfHead(r, c, id, rules, direction) ==
    LET next == FindNext(r, c.class, id, direction, AllViewable(r, c, rules))
    IN  IF next = NULL THEN First(r, c, rules, "forward") ELSE next

\* sc_weapon_next, sc_accessory_next: past the end the walk goes on at the
\* other one.
NextOf(r, c, id, rules, direction) ==
    LET next == FindNext(r, c.class, id, direction, AllViewable(r, c, rules))
    IN  IF next = NULL THEN First(r, c, rules, direction) ELSE next

-----------------------------------------------------------------------------
(* sc_phoenix_verify.                                                      *)

IsPhoenix(info) == info.ph_fl # {} /\ "DETONATE" \notin info.ph_fl

\* Fault: a child that is not there is no child.
DeeperLenient(r, i, above, level, misread) ==
    IF ~IsPhoenix(i) \/ Lookup(r, i.ph_ch) = NULL THEN 1
    ELSE 1 + level[r.item[Lookup(r, i.ph_ch)].info][above]

\* One level of children, given what the next one comes to.
Deeper(r, i, above, level, misread) ==
    IF i.kind # "weapon" THEN misread
    ELSE IF ~IsPhoenix(i) THEN 1
    ELSE LET child == Lookup(r, i.ph_ch)
         IN  IF child = NULL \/ child = i.ident \/ i.ident \in above THEN 0
             ELSE LET below == level[r.item[child].info][above \union {i.ident}]
                  IN  IF below = 0 THEN 0
                      ELSE 1 + below * Cardinality(i.ph_fl \intersect {"CHAIN", "SPIDER", "SCATTER"})

\* The levels of children, or 0 if they do not come to an end: no item comes
\* twice, so that there are no more levels than keys.  An accessory or a
\* scoring that is taken for a weapon, after a reference that was never set,
\* is read as something else: valid or not.
Levels(r, info, misread) ==
    LET infos == {info} \union {r.item[k].info : k \in Registered(r)}
        level[n \in 0 .. MaxKey + 2] ==
            [i \in infos |-> [above \in SUBSET Key |->
                IF n = 0 THEN 0 ELSE Deeper(r, i, above, level[n - 1], misread)]]
    IN  level[MaxKey + 2][info][{}]

Verified(r, info, misread) == IsPhoenix(info) => Levels(r, info, misread) # 0

-----------------------------------------------------------------------------
(* Reading a file (sc_addconf_append_file).                                *)

\* An item is one of its kind, named, and not named like another.
Proper(r, k, entry) ==
    /\ entry.kind = k
    /\ entry.name # ""
    /\ LookupByName(r, conf[k], entry.name) = NULL

\* The child an item refers to: itself, or one that has been defined already.
ChildOf(r, k, entry, ident) ==
    IF entry.child = "" THEN NULL
    ELSE IF Sloppy[entry.child] = Sloppy[entry.name] THEN ident
    ELSE LookupByName(r, conf[k], entry.child)

InfoOf(entry, ident, child) ==
    [ident |-> ident, kind |-> entry.kind, name |-> entry.name, armslevel |-> entry.armslevel,
     useless |-> entry.useless, indirect |-> entry.indirect, ph_fl |-> entry.ph_fl,
     ph_ch |-> child, named |-> child # NULL]

Reading == read # NULL

Open ==
    /\ ~Reading
    /\ read' = 0 /\ found' = 0

Close == read' = NULL /\ found' = 0

\* What is in memory matters to a phoenix weapon whose child was not found.
Remains(info) == IF IsPhoenix(info) /\ ~info.named THEN Garbage ELSE {info.ph_ch}

\* The place of the hash table where the child of a phoenix weapon is sought.
Sought(info) == IF IsPhoenix(info) /\ info.ph_ch # NULL THEN {Hash[info.ph_ch]} ELSE {}

\* _sc_*_read_item: a number is used up as soon as the item has a name.  A
\* pointer that nobody has stored, followed by sc_phoenix_verify or by
\* shashlist_insert_by_int, leads anywhere: the model ends there.
ReadItem(entry) ==
    /\ Reading /\ read < MaxItems /\ reg.nextkey \in Key
    /\ read' = read + 1
    /\ LET k == Kinds[at]
           ident == reg.nextkey
           numbered == [reg EXCEPT !.nextkey = @ + 1]
           plain == InfoOf(entry, ident, ChildOf(reg, k, entry, ident))
       IN  IF ~Proper(reg, k, entry) THEN UNCHANGED <<reg, found, lost>>
           ELSE \E ph_ch \in Remains(plain), misread \in {0, 1} :
                LET info == [plain EXCEPT !.ph_ch = ph_ch]
                    taken == Verified(reg, info, misread) /\ CanInsert(reg, ident)
                    followed == Sought(info) \cup (IF taken THEN {Hash[ident]} ELSE {})
                IN  \/ /\ followed \cap stray # {}
                       /\ lost' = TRUE
                       /\ UNCHANGED <<reg, found>>
                    \/ /\ followed \cap stray = {}
                       /\ IF taken
                            THEN /\ reg' = InsertByInt(numbered, ident, conf[k].class, info)
                                 /\ found' = found + 1
                            ELSE reg' = numbered /\ UNCHANGED found
                       /\ UNCHANGED lost
    /\ UNCHANGED <<stage, at, conf, stray>>

-----------------------------------------------------------------------------
(* sc_config_new, the options, sc_config_free.                             *)

\* On to the next kind, or the next stage.
Advance(next) ==
    IF at < Len(Kinds) THEN at' = at + 1 /\ UNCHANGED stage
    ELSE at' = 1 /\ stage' = next

\* sc_accessory_config_create, sc_economy_config_create,
\* sc_weapon_config_create.
Create ==
    /\ stage = "create"
    /\ Open
    /\ conf' = [conf EXCEPT ![Kinds[at]] =
                  [class |-> reg.nextclass, armslevel |-> 0, uselessitems |-> TRUE]]
    /\ reg' = [reg EXCEPT !.nextclass = @ + 1]
    /\ UNCHANGED <<stage, at, memory>>

\* Without a list that has something to choose from, the game does not start.
Usable(k) ==
    /\ found > 0
    /\ k # "scoring" => Count(reg, conf[k], {"INDIRECT"}) > 0

Created ==
    /\ stage = "create" /\ Reading
    /\ Close
    /\ IF Usable(Kinds[at]) THEN Advance("options") /\ UNCHANGED conf
       ELSE /\ conf' = [conf EXCEPT ![Kinds[at]] = None]
            /\ stage' = "ended" /\ UNCHANGED at
    /\ UNCHANGED <<reg, memory>>

\* A list is named in the options, or not.
OpenList ==
    /\ stage = "options"
    /\ Open
    /\ UNCHANGED <<stage, at, reg, conf, memory>>

\* Whether anything was found is only reported.
Appended ==
    /\ stage = "options"
    /\ Close
    /\ Advance("play")
    /\ UNCHANGED <<reg, conf, memory>>

\* The weapons window, and the configuration a server sends, change the rules
\* for weapons.
SetRules ==
    /\ stage = "play"
    /\ \E level \in ArmsLevel, useless \in BOOLEAN :
         conf' = [conf EXCEPT !["weapon"].armslevel = level, !["weapon"].uselessitems = useless]
    /\ UNCHANGED <<stage, at, read, found, reg, memory>>

Quit ==
    /\ stage = "play"
    /\ stage' = "free"
    /\ UNCHANGED <<at, read, found, reg, conf, memory>>

\* Fault: the following item of the registry, of whatever class.
EmptiedOneAny(s, class) ==
    IF s.next = NULL THEN s
    ELSE [reg |-> RemoveByInt(s.reg, s.next), next |-> s.reg.item[s.next].next]

\* One pass of the loop of sc_*_config_destroy.
EmptiedOne(s, class) ==
    IF s.next = NULL THEN s
    ELSE [reg  |-> RemoveByInt(s.reg, s.next),
          next |-> FindNext(s.reg, class, s.next, "forward", Registered(s.reg))]

\* sc_*_config_destroy
Emptied(r, class) ==
    LET left[n \in 0 .. Cardinality(Registered(r))] ==
            IF n = 0 THEN [reg |-> r, next |-> FindFirst(r, class, "forward", Registered(r))]
            ELSE EmptiedOne(left[n - 1], class)
    IN  left[Cardinality(Registered(r))].reg

Destroy ==
    /\ stage = "free"
    /\ LET k == Kinds[at]
           class == conf[k].class
       IN  /\ reg' = Emptied(reg, class)
           /\ conf' = [conf EXCEPT ![k] = None]
    /\ Advance("ended")
    /\ UNCHANGED <<read, found, memory>>

Init ==
    /\ stage = "create" /\ at = 1
    /\ read = NULL /\ found = 0
    /\ reg = EmptyRegistry
    /\ conf = [k \in Kind |-> None]
    /\ stray \in SUBSET Bucket /\ lost = FALSE

\* The item is one of what the file may hold.
Read == \E entry \in (IF stage = "create" THEN RootItems ELSE ListItems)[Kinds[at]] : ReadItem(entry)

Next ==
    /\ ~lost
    /\ \/ Create \/ Read \/ Created \/ OpenList \/ Appended \/ SetRules \/ Quit
       \/ Destroy

Spec == Init /\ [][Next]_vars

-----------------------------------------------------------------------------
(* Properties.                                                             *)

\* The list and the hash table tell the same, whatever was added and taken
\* out: forwards and backwards the keys in ascending order, and each found by
\* its number, along memory that somebody has stored to (shashlist.c).  This
\* holds up to the moment when something that was never stored is followed;
\* TableInitialized says that there is none.
RegistrySound ==
    LET list == Along(reg, reg.head, "next")
    IN  /\ Range(list) = Registered(reg)
        /\ \A i \in 1 .. Len(list) - 1 : list[i] < list[i + 1]
        /\ Along(reg, reg.tail, "prev") = Reverse(list)
        /\ \A k \in Registered(reg) : k < reg.nextkey /\ FindByInt(reg, k) = k
        /\ \A k \in Registered(reg) : Hash[k] \notin stray

\* The hash table holds items and nothing else: shashlist_new is to "Create
\* and initialize a new shashlist" (shashlist.c:92).
TableInitialized == ~lost

\* Every phoenix weapon whose child was found has a child that is a weapon,
\* not itself, and the chain of children comes to an end, so that firing it
\* does (sc_phoenix_verify).  A weapon that names no child, or none that
\* exists, is left with whatever was in memory.
ChildNamed(k) == IsPhoenix(reg.item[k].info) /\ reg.item[k].info.named
ChainsEnd ==
    \A k \in Registered(reg) : ChildNamed(k) =>
        LET child == reg.item[k].info.ph_ch
        IN  /\ child \in Registered(reg) /\ child < k
            /\ reg.item[child].class = reg.item[k].class

\* "for(n = sc_weapon_count(); n > 0; --n, info = sc_weapon_next())", the
\* loop of the shops, the computer players and the network, comes by every
\* item that may be seen exactly once, in either direction and whatever has
\* been appended or hidden since, and is then where it began, as the selection
\* with the keys expects.
Visited(c, k, rules, direction, n) ==
    LET item[i \in 0 .. n] == IF i = 0 THEN k ELSE NextOf(reg, c, item[i - 1], rules, direction)
    IN  [i \in 1 .. n + 1 |-> item[i - 1]]

EveryItemVisited ==
    ~Reading /\ stage \in {"options", "play"} =>
        \A kind \in {"accessory", "weapon"}, rules \in {{}, Rules}, direction \in {"forward", "reverse"} :
            LET c == conf[kind]
                seen == Among(IF direction = "forward" THEN ItemsOf(kind) ELSE Reverse(ItemsOf(kind)),
                              AllViewable(reg, c, rules))
                first == First(reg, c, rules, direction)
            IN  Visited(c, first, rules, direction, Count(reg, c, rules)) = Append(seen, first)

\* What has been defined stays as it is, whatever is appended, until the
\* configuration of its own kind is destroyed; then all of it goes, and
\* nothing of the other kinds.
DefinitionsKept ==
    [][\A k \in Kind : Exists(conf[k]) =>
          IF Exists(conf'[k])
          THEN \A i \in Range(ItemsOf(k)) :
                  i \in Registered(reg)' /\ reg'.item[i].info = reg.item[i].info
          ELSE stage = "free" => \A i \in Registered(reg)' : reg'.item[i].class # conf[k].class]_vars
=============================================================================
