-------------------------------- MODULE Conf --------------------------------
(***************************************************************************)
(* The configuration file (conf.c): lines set the globals, the defaults or *)
(* the last server, and make entries for devices and servers.  An entry    *)
(* that the load adopts becomes the device or the server itself; the       *)
(* others are reused by the next parse.  Text is abstracted to lines of a  *)
(* command and its argument.  Of the commands there are those that make an *)
(* entry, a global and two settings of a server, which are numbers and     *)
(* sizes; the flags and paths, which are set or refused likewise, are left *)
(* out.  A parse is one step, as the master does nothing else meanwhile.   *)
(***************************************************************************)
EXTENDS Integers, FiniteSetsExt, SequencesExt

CONSTANTS
  Texts,       \* sequences of lines, with included files between "include" and "end"
  MaxDeep,     \* how deep files may include each other (10 in the code)
  WordBits,    \* the number of bits of a size_t
  Objects      \* numbers of the objects that malloc can return

ASSUME ConfAssumption == MaxDeep \in Nat /\ WordBits \in Nat /\ Objects \subseteq Nat

VARIABLES
  said,         \* the text that was parsed and is to be checked, or <<>>
  threads,      \* conf_cycle.threads
  conf_cycle,   \* the lists of entries of the configuration
  reserved,     \* reserved_devices and reserved_servers
  inuse,        \* devices and servers
  object,       \* the name of an object and, of a server, its settings; only of
                \* those in use or about to be checked, for others are overwritten
  loaded        \* the text that was loaded last

confVars == <<said, threads, conf_cycle, reserved, inuse, object, loaded>>

Kinds == {"device", "server"}

Settings == {"capacity", "connections_limit"}

Defaults == [s \in Settings |-> IF s = "capacity" THEN 0 ELSE 1000]

DefaultThreads == 4

Blank == [name |-> "", set |-> Defaults]

ConfInit ==
  /\ said = <<>> /\ threads = DefaultThreads /\ loaded = <<>>
  /\ conf_cycle = [k \in Kinds |-> <<>>] /\ reserved = conf_cycle /\ inuse = conf_cycle
  /\ object = [k \in Kinds |-> [o \in Objects |-> Blank]]

-----------------------------------------------------------------------------
(* The arguments.                                                          *)

LONG_MAX == 2 ^ (WordBits - 1) - 1

INT_MAX == 2 ^ (WordBits \div 2 - 1) - 1

(* A number and K, M, G or T; the bits that the shift would lose must be   *)
(* zero.                                                                   *)
conf_set_size(line) ==
  [ok |-> line.arg \in 0 .. LONG_MAX - 1 /\ (line.shift # 0 => line.arg < 2 ^ (WordBits - line.shift)),
   value |-> (line.arg * 2 ^ line.shift) % 2 ^ WordBits]

conf_set_int(line) == [ok |-> line.arg \in 0 .. INT_MAX, value |-> line.arg]

Argument(line) == IF line.cmd = "capacity" THEN conf_set_size(line) ELSE conf_set_int(line)

-----------------------------------------------------------------------------
(* Parsing.  A parse p has the lists and objects so far, default_server,   *)
(* how deep its file is, and whether it still succeeds.                    *)

Refuse(p) == [p EXCEPT !.ok = FALSE]

(* A reserved object, or else a new one as long as there is memory. *)
Fresh(p, k) ==
  IF p.reserved[k] # <<>> THEN {Head(p.reserved[k])}
  ELSE LET free == Objects \ (ToSet(p.conf[k]) \cup ToSet(inuse[k]))
       IN {o \in free : \A other \in free : o <= other}

NewEntry(p, k, entry) ==
  IF Fresh(p, k) = {} THEN Refuse(p)
  ELSE LET o == CHOOSE o \in Fresh(p, k) : TRUE
       IN [p EXCEPT !.conf[k] = Append(@, o), !.object[k][o] = entry,
                    !.reserved[k] = IF @ = <<>> THEN @ ELSE Tail(@)]

conf_new_device(p, line) == NewEntry(p, "device", [name |-> line.arg, set |-> Defaults])

conf_new_server(p, line) == NewEntry(p, "server", [name |-> line.arg, set |-> p.default])

(* Mutant: a setting of a later server changes the defaults. *)
SetServer_Default(p, line) == [p EXCEPT !.default[line.cmd] = Argument(line).value]

(* The context is the last server, or the defaults while there is none. *)
SetServer(p, line) ==
  IF p.conf.server = <<>> THEN [p EXCEPT !.default[line.cmd] = Argument(line).value]
  ELSE [p EXCEPT !.object.server[Last(p.conf.server)].set[line.cmd] = Argument(line).value]

(* The commands of g_commands before "listen". *)
IsGlobal(line) == line.cmd \in {"threads", "device"}

(* A line without a command and exactly one argument. *)
Unreadable(line) == line.cmd = "bad"

(* One line of conf_parse_file. *)
Line(p, line) ==
  CASE ~p.ok \/ Unreadable(line) -> Refuse(p)
    [] p.ok /\ line.cmd = "include" -> [p EXCEPT !.deep = @ + 1, !.ok = p.deep + 1 <= MaxDeep]
    [] p.ok /\ line.cmd = "end" -> [p EXCEPT !.deep = @ - 1]
    [] p.ok /\ IsGlobal(line) /\ p.conf.server # <<>> -> Refuse(p)
    [] p.ok /\ line.cmd = "device" /\ p.conf.server = <<>> -> conf_new_device(p, line)
    [] p.ok /\ line.cmd = "listen" -> conf_new_server(p, line)
    [] OTHER -> IF ~Argument(line).ok THEN Refuse(p)
                ELSE IF line.cmd = "threads" THEN [p EXCEPT !.threads = Argument(line).value]
                ELSE SetServer(p, line)

Only(objs, lists) ==
  [k \in Kinds |-> [o \in Objects |-> IF o \in ToSet(lists[k]) THEN objs[k][o] ELSE Blank]]

(* The entries that were not adopted are reused. *)
Start ==
  [conf |-> [k \in Kinds |-> <<>>], reserved |-> [k \in Kinds |-> conf_cycle[k] \o reserved[k]],
   threads |-> DefaultThreads, default |-> Defaults, object |-> object, deep |-> 0, ok |-> TRUE]

conf_parse(text) ==
  LET p == FoldLeft(Line, Start, text)
  IN /\ said = <<>>
     /\ conf_cycle' = p.conf /\ reserved' = p.reserved /\ threads' = p.threads
     /\ said' = (IF p.ok THEN text ELSE <<>>)
     /\ object' = Only(p.object, [k \in Kinds |-> inuse[k] \o (IF p.ok THEN p.conf[k] ELSE <<>>)])
     /\ UNCHANGED <<inuse, loaded>>

-----------------------------------------------------------------------------
(* Checking and loading.                                                   *)

Name(k, o) == object[k][o].name

(* The checks fail, for the reasons of Reload too. *)
CheckFails ==
  /\ said # <<>> /\ said' = <<>> /\ object' = Only(object, inuse)
  /\ UNCHANGED <<threads, conf_cycle, reserved, inuse, loaded>>

CheckPasses ==
  \A k \in Kinds :
    /\ conf_cycle[k] # <<>>
    /\ \A o, p \in ToSet(conf_cycle[k]) : Name(k, o) = Name(k, p) => o = p

(* The object of this name that is in use, if there is one. *)
Same(k, o) == {p \in ToSet(inuse[k]) : Name(k, p) = Name(k, o)}

(* Mutant: an adopted entry stays on the list of the configuration. *)
Remaining_All(k) == conf_cycle[k]

(* The entries that only update an object stay on their list. *)
Remaining(k) == SelectSeq(conf_cycle[k], LAMBDA o : Same(k, o) # {})

(* server_update, which does not copy the limit of connections. *)
Updated(p) ==
  LET news == {o \in ToSet(conf_cycle.server) : p \in Same("server", o)}
      new == object.server[CHOOSE o \in news : TRUE]
  IN IF news = {} THEN object.server[p]
     ELSE [object.server[p] EXCEPT !.set["capacity"] = new.set["capacity"]]

(* Objects come in the order of the configuration.  Those that it does not *)
(* name are deleted; nothing here reaches them any more.                   *)
LoadConf ==
  /\ said # <<>> /\ CheckPasses
  /\ inuse' = [k \in Kinds |->
       [i \in DOMAIN conf_cycle[k] |->
          CHOOSE o \in (IF Same(k, conf_cycle[k][i]) = {} THEN {conf_cycle[k][i]} ELSE Same(k, conf_cycle[k][i])) : TRUE]]
  /\ conf_cycle' = [k \in Kinds |-> Remaining(k)]
  /\ object' = Only([object EXCEPT !.server = [p \in Objects |-> Updated(p)]], inuse')
  /\ loaded' = said /\ said' = <<>>
  /\ UNCHANGED <<threads, reserved>>

ConfNext ==
  \/ \E text \in Texts : conf_parse(text)
  \/ CheckFails \/ LoadConf

ConfSpec == ConfInit /\ [][ConfNext]_confVars

-----------------------------------------------------------------------------
(* What a text means.                                                      *)

Says(text, cmd, from, to) == {i \in from .. to : text[i].cmd = cmd}

(* The argument of the last of the lines, without bounds on numbers. *)
LastOf(text, lines, default) ==
  IF lines = {} THEN default
  ELSE LET line == text[Max(lines)] IN line.arg * (IF line.cmd = "capacity" THEN 2 ^ line.shift ELSE 1)

(* The server whose listen is line i. *)
MeantServer(text, i) ==
  LET listens == Says(text, "listen", 1, Len(text))
      end == Min({j \in listens : j > i} \cup {Len(text)})
      default(s) == LastOf(text, Says(text, s, 1, Min(listens)), Defaults[s])
  IN [name |-> text[i].arg, set |-> [s \in Settings |-> LastOf(text, Says(text, s, i, end), default(s))]]

Meant(text) ==
  LET inorder(cmd) == SetToSortSeq(Says(text, cmd, 1, Len(text)), <)
  IN [threads |-> LastOf(text, Says(text, "threads", 1, Len(text)), DefaultThreads),
      device |-> [n \in DOMAIN inorder("device") |-> [name |-> text[inorder("device")[n]].arg, set |-> Defaults]],
      server |-> [n \in DOMAIN inorder("listen") |-> MeantServer(text, inorder("listen")[n])]]

-----------------------------------------------------------------------------
(* Properties.                                                             *)

(* Wherever a file is split by includes and whatever was parsed before, a  *)
(* parse gives the configuration its lines mean: the settings of a server  *)
(* are the last ones after its listen, else the last ones before the first *)
(* listen, else the built-in ones, and a size is not cut off               *)
(* (conf_parse_file, conf_new_server, conf_set_size).                      *)
ParsedAsMeant ==
  said # <<>> =>
    /\ threads = Meant(said).threads
    /\ \A k \in Kinds : [i \in DOMAIN conf_cycle[k] |-> object[k][conf_cycle[k][i]]] = Meant(said)[k]

(* "The configuration ... can be modified by reloading": what is in use is *)
(* the configuration loaded last, in its order, while later ones are read  *)
(* into reused entries and refused at any line.  (Except the limit of      *)
(* connections of a server that stays, which server_update leaves out.)    *)
RunsAsLoaded ==
  LET meant == Meant(loaded)
  IN \A k \in Kinds :
       /\ Len(inuse[k]) = Len(meant[k])
       /\ \A i \in DOMAIN inuse[k] :
            /\ Name(k, inuse[k][i]) = meant[k][i].name
            /\ object[k][inuse[k][i]].set["capacity"] = meant[k][i].set["capacity"]
=============================================================================
