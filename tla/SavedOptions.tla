---------------------------- MODULE SavedOptions ----------------------------
(***************************************************************************)
(* The options of the program and the files they are kept in               *)
(* (src/sgame/scffile.c, scffileold.c and the callers in sconfig.c,        *)
(* soptions.c and sfile-gtk.c).  A session builds the registry, loads the  *)
(* standard file, on request another one over it, changes options and      *)
(* saves them to either file; it may die while it writes, the disk may be  *)
(* full, and the user may edit a file by hand between two sessions.        *)
(*                                                                         *)
(* Of some sixty options six are kept: one for each way an option is read  *)
(* (integer, enumerated name, string, number, boolean) and two booleans    *)
(* that are neighbours in their C structure.                               *)
(***************************************************************************)
EXTENDS Registry

CONSTANTS
    Names,        \* player names, as texts
    EditTexts,    \* texts a user may put in place of a value
    MaxChanges,   \* changes of an option, over all sessions
    MaxSaves,     \* saves, over all sessions
    MaxMishaps    \* saves cut short and edits by hand, together

ASSUME BoundsAssumption ==
    /\ {MaxChanges, MaxSaves, MaxMishaps} \subseteq Nat
    /\ Names # {}

VARIABLES
    phase,  \* "off", "fresh" (only the standard file is loaded) or "run"
    opts,   \* the options in memory (sc_config)
    top,    \* the top block of the registry (c->cfreg)
    name,   \* the file name in the registry
    files,  \* for each file its lines
    left,   \* what is left of the bounds
    saved,  \* for each file, the options of its last save as they can be read
    hurt,   \* for each file, the options whose lines were edited since
    torn,   \* for each file, whether its last save was cut short
    extra   \* whether this session loaded a variable the program does not know

vars == <<phase, opts, top, name, files, left, saved, hurt, torn, extra>>

Files == {"std", "alt"}

(* A file that is not there is read as one whose first line is unreadable. *)
NoFile == <<Junk>>
On == <<"True">>
Off == <<"False">>

-----------------------------------------------------------------------------
(* The tables of scffile.c and scffileold.c.                               *)

Var(t) == [type |-> t, klass |-> NoClass]
Sub(k) == [type |-> "block", klass |-> k]

TopClass == [players |-> Sub("players_class"), physics |-> Sub("physics_class"),
             aicontroller |-> Sub("aicontroller_class")]

CommonClasses == [
    __top |-> TopClass,
    players_class |-> [numPlayers |-> Var("int"), player_1 |-> Sub("player_class")],
    player_class |-> [playerType |-> Var("str"), playerName |-> Var("str")],
    physics_class |-> [gravity |-> Var("dbl")]]

Classes == CommonClasses @@
    [aicontroller_class |-> [humanTargets |-> Var("bool"), alwaysOffset |-> Var("bool")]]

OldClasses == CommonClasses @@ [aicontroller_class |-> [humanTargets |-> Var("int")]]

(* The registry before a file is read: all blocks, no variables.           *)
InitialTop ==
    Block("__top", "__top",
      <<Block("players", "players_class", <<Block("player_1", "player_class", <<>>)>>),
        Block("physics", "physics_class", <<>>),
        Block("aicontroller", "aicontroller_class", <<>>)>>)

AiNames == {<<"Human">>, <<"Shooter">>}

Where == [numPlayers |-> <<"players">>, playerType |-> <<"players", "player_1">>,
          playerName |-> <<"players", "player_1">>, gravity |-> <<"physics">>,
          humanTargets |-> <<"aicontroller">>, alwaysOffset |-> <<"aicontroller">>]

Options == DOMAIN Where

TypeOf == [numPlayers |-> "int", playerType |-> "str", playerName |-> "str",
           gravity |-> "dbl", humanTargets |-> "bool", alwaysOffset |-> "bool"]

Values == [numPlayers |-> {<<"2">>, <<"1", "0">>}, playerType |-> AiNames,
           playerName |-> Names, gravity |-> {<<"0", ".", "1">>, <<"9", ".", "8", "1">>},
           humanTargets |-> {On, Off}, alwaysOffset |-> {On, Off}]

Default == [numPlayers |-> <<"2">>, playerType |-> <<"Human">>,
            playerName |-> CHOOSE n \in Names : TRUE, gravity |-> <<"0", ".", "1">>,
            humanTargets |-> Off, alwaysOffset |-> Off]

(* In the order of sc_config_file_save.                                    *)
SaveOrder == <<"numPlayers", "playerType", "playerName", "gravity",
               "humanTargets", "alwaysOffset">>

-----------------------------------------------------------------------------
(* Loading.                                                                *)

Enumerated(text, old) == IF text \in AiNames THEN text ELSE old

(* What the program takes from a registry of the present version.          *)
TakeOptions(b, o) ==
    [x \in Options |->
        LET v == GetAt(b, Where[x], x, TypeOf[x], o[x])
        IN  IF x = "playerType" THEN Enumerated(v, o[x]) ELSE v]

(* What it takes from one of an older version: booleans are integers there, *)
(* alwaysOffset is not read, and the integer that humanTargets is stored   *)
(* with covers its neighbours.                                             *)
StoreInteger(o, i) ==
    IF i = <<>> THEN o
    ELSE [o EXCEPT !.humanTargets = IF i = <<"0">> THEN Off ELSE On, !.alwaysOffset = Off]

TakeOldOptions(b, o) ==
    StoreInteger([TakeOptions(b, o) EXCEPT !.humanTargets = o.humanTargets,
                                           !.alwaysOffset = o.alwaysOffset],
                 GetAt(b, Where.humanTargets, "humanTargets", "int", <<>>))

IsOld(b) == GetAt(b, <<>>, "version", "int", <<"0">>) \in {<<"0">>, <<"1">>}

(* The older reader reads the file again, into a registry of its own.      *)
OldLoad(r, o) == IF r.ok THEN TakeOldOptions(r.block, o) ELSE o

(* The options after file f has been read over o, r the result.            *)
LoadedOptions(f, r, o) ==
    CASE ~r.ok -> o
      [] r.ok /\ ~IsOld(r.block) -> TakeOptions(r.block, o)
      [] OTHER -> OldLoad(LoadTop(OldClasses, files[f], InitialTop), o)

HasExtra(f) == \E i \in DOMAIN files[f] :
                   files[f][i].kind = "set" /\ files[f][i].name = "extra"

LoadInto(f, b, o) ==
    \E r \in {LoadTop(Classes, files[f], b)} :
        /\ top' = r.block
        /\ opts' = LoadedOptions(f, r, o)
        /\ extra' = (extra \/ (r.ok /\ HasExtra(f)))

(* The program starts: sc_config_new.                                      *)
Start ==
    /\ phase = "off"
    /\ phase' = "fresh"
    /\ name' = "std"
    /\ LoadInto("std", InitialTop, Default)
    /\ UNCHANGED <<files, left, saved, hurt, torn>>

(* The command line names another file: sc_options_parse.                  *)
OtherFile ==
    /\ phase = "fresh"
    /\ phase' = "run"
    /\ name' = "alt"
    /\ LoadInto("alt", top, opts)
    /\ UNCHANGED <<files, left, saved, hurt, torn>>

-----------------------------------------------------------------------------
(* Changing and saving.                                                    *)

ChangeOption ==
    /\ phase \in {"fresh", "run"}
    /\ left.changes > 0
    /\ \E x \in Options : \E v \in Values[x] \ {opts[x]} : opts' = [opts EXCEPT ![x] = v]
    /\ left' = [left EXCEPT !.changes = @ - 1]
    /\ phase' = "run"
    /\ UNCHANGED <<top, name, files, saved, hurt, torn, extra>>

(* The registry with all options set, the version first.                   *)
WithOptions(b) ==
    FoldLeft(LAMBDA r, x : SetAt(Classes, r, Where[x], Scalar(x, TypeOf[x], opts[x])),
             SetAt(Classes, b, <<>>, Scalar("version", "int", <<"2">>)),
             SaveOrder)

(* What the beginning of a line may be read as: only a name, a name and    *)
(* "=", some of the text, all but the end of the line.                     *)
Cuts(l) ==
    CASE l.kind = "set" ->
            {Junk, Skip} \cup {Assign(l.name, SubSeq(l.text, 1, k)) : k \in 1..(Len(l.text) - 1)}
      [] l.kind = "begin" -> {Junk, Skip, l}
      [] OTHER -> {Skip, l}

(* The files a save of the lines ls can leave when it does not come to its *)
(* end: so many lines, and perhaps a part of the next.                     *)
CutShort(ls) ==
    {SubSeq(ls, 1, k) : k \in 0..(Len(ls) - 1)} \cup
    UNION {{Append(SubSeq(ls, 1, k), c) : c \in Cuts(ls[k + 1])} : k \in 0..(Len(ls) - 1)}

(* An option as a file can give it back.                                   *)
Readable(o) == [o EXCEPT !.gravity = SubSeq(@, 1, IF Len(@) < Precision THEN Len(@) ELSE Precision)]

SaveTo(f) ==
    /\ phase \in {"fresh", "run"}
    /\ left.saves > 0
    /\ phase' = "run"
    /\ top' = WithOptions(top)
    /\ name' = f
    /\ saved' = [saved EXCEPT ![f] = Readable(opts)]
    /\ hurt' = [hurt EXCEPT ![f] = {}]

(* The file is written whole.                                              *)
Save(f) ==
    /\ SaveTo(f)
    /\ left' = [left EXCEPT !.saves = @ - 1]
    /\ files' = [files EXCEPT ![f] = SaveVars(top'.vars)]
    /\ torn' = [torn EXCEPT ![f] = FALSE]
    /\ UNCHANGED <<opts, extra>>

(* The disk is full, which nobody notices, or the program dies.            *)
SaveCutShort(f) ==
    /\ SaveTo(f)
    /\ left.mishaps > 0
    /\ left' = [left EXCEPT !.saves = @ - 1, !.mishaps = @ - 1]
    /\ \E t \in CutShort(SaveVars(top'.vars)) : files' = [files EXCEPT ![f] = t]
    /\ torn' = [torn EXCEPT ![f] = TRUE]
    /\ UNCHANGED <<opts, extra>>

(* The file cannot be opened: the registry has the options, the file not.  *)
SaveFails(f) ==
    /\ phase \in {"fresh", "run"}
    /\ left.saves > 0
    /\ left' = [left EXCEPT !.saves = @ - 1]
    /\ top' = WithOptions(top)
    /\ name' = f
    /\ phase' = "run"
    /\ UNCHANGED <<opts, files, saved, hurt, torn, extra>>

(* The session ends, in whatever way.                                      *)
Exit ==
    /\ phase \in {"fresh", "run"}
    /\ phase' = "off"
    /\ opts' = Default /\ top' = InitialTop /\ name' = "std" /\ extra' = FALSE
    /\ UNCHANGED <<files, left, saved, hurt, torn>>

-----------------------------------------------------------------------------
(* The user edits a whole file by hand.                                    *)

Edited(f, ls, opts_hurt) ==
    /\ phase = "off"
    /\ left.mishaps > 0
    /\ ~torn[f]
    /\ files' = [files EXCEPT ![f] = ls]
    /\ hurt' = [hurt EXCEPT ![f] = @ \cup opts_hurt]
    /\ left' = [left EXCEPT !.mishaps = @ - 1]
    /\ UNCHANGED <<phase, opts, top, name, saved, torn, extra>>

HurtBy(l) == IF l.kind = "set" /\ l.name \in Options THEN {l.name} ELSE Options

EditValue(f) ==
    \E i \in DOMAIN files[f] : \E t \in EditTexts :
        /\ files[f][i].kind = "set" /\ files[f][i].text # t
        /\ Edited(f, [files[f] EXCEPT ![i].text = t], HurtBy(files[f][i]))

RemoveLine(f) ==
    \E i \in DOMAIN files[f] : Edited(f, RemoveAt(files[f], i), HurtBy(files[f][i]))

(* A variable of the user's own.                                           *)
AddVariable(f) ==
    \E i \in DOMAIN files[f] :
        Edited(f, InsertAt(files[f], i + 1, Assign("extra", <<"8", ";">>)), {})

(* A line that does not belong there.                                      *)
AddLine(f) ==
    \E i \in DOMAIN files[f] : \E l \in {Junk, End, Begin("physics", "player_class")} :
        Edited(f, InsertAt(files[f], i + 1, l), Options)

-----------------------------------------------------------------------------
Init ==
    /\ phase = "off"
    /\ opts = Default /\ top = InitialTop /\ name = "std" /\ extra = FALSE
    /\ files = [f \in Files |-> NoFile]
    /\ left = [changes |-> MaxChanges, saves |-> MaxSaves, mishaps |-> MaxMishaps]
    /\ saved = [f \in Files |-> Default]
    /\ hurt = [f \in Files |-> {}]
    /\ torn = [f \in Files |-> TRUE]

Next ==
    \/ Start \/ OtherFile \/ ChangeOption \/ Exit
    \/ \E f \in Files :
           \/ Save(f) \/ SaveCutShort(f) \/ SaveFails(f)
           \/ EditValue(f) \/ RemoveLine(f) \/ AddVariable(f) \/ AddLine(f)

Spec == Init /\ [][Next]_vars

-----------------------------------------------------------------------------
(* Properties.                                                             *)

RECURSIVE WellTyped(_)
(* No two variables of a block share a name, and a registered variable has *)
(* its registered type and class.                                          *)
WellTyped(b) ==
    /\ \A i, j \in DOMAIN b.vars : b.vars[i].name = b.vars[j].name => i = j
    /\ \A i \in DOMAIN b.vars :
          /\ InfoType(Classes, b.klass, b.vars[i].name) \in {"any", b.vars[i].type}
          /\ b.vars[i].type = "block" =>
                InfoClass(Classes, b.klass, b.vars[i].name) \in {NoClass, b.vars[i].klass}
          /\ b.vars[i].type = "block" => WellTyped(b.vars[i])

(* Whatever is in the files, the blocks and variables that the program     *)
(* relies on are there with their registered types, once, and the options  *)
(* have values of their types.                                             *)
OptionsTypeOK ==
    /\ phase \in {"off", "fresh", "run"}
    /\ name \in Files /\ extra \in BOOLEAN
    /\ WellTyped(top)
    /\ opts.playerType \in AiNames
    /\ \A x \in {"humanTargets", "alwaysOffset"} : opts[x] \in {On, Off}
    /\ \A f \in Files : hurt[f] \subseteq Options /\ torn[f] \in BOOLEAN

(* The file that a step loads, if it loads one.                            *)
Loads(f) == \/ phase = "off" /\ phase' = "fresh" /\ f = "std"
            \/ phase = "fresh" /\ name' = "alt" /\ left' = left /\ f = "alt"

(* What has been saved is loaded: a file that was written whole gives back *)
(* every option as it was saved, all but those whose lines were edited     *)
(* since, and whatever another file said before (sc_config_file_save,      *)
(* sc_config_file_load).  The values are of their options' types.          *)
LoadsBack ==
    []OptionsTypeOK /\ [][\A f \in Files : Loads(f) /\ ~torn[f] =>
          \A x \in Options \ hurt[f] : opts'[x] = saved[f][x]]_vars

(* A save that is cut short invents nothing: each option is loaded as it   *)
(* was being saved or is left as it was, or (the registry keeps what it    *)
(* has of the standard file even when that could not be loaded) is that of *)
(* the standard file.  The reader gives up a block that has no end.        *)
TornInventsNothing ==
    [][\A f \in Files : Loads(f) /\ torn[f] /\ hurt["std"] = {} =>
          \A x \in Options : opts'[x] \in {saved[f][x], opts[x], saved["std"][x]}]_vars

(* A variable the program does not know, once loaded, is written by every  *)
(* save of the session (reg_var_merge_block, reg_save).                    *)
ExtraKept ==
    [][\A f \in Files : extra /\ files'[f] # files[f] /\ ~torn'[f] /\ phase # "off" => HasExtra(f)']_vars
=============================================================================
