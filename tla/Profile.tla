------------------------------ MODULE Profile ------------------------------
(***************************************************************************)
(* The profile of a node: a directory with the configuration, the key      *)
(* pairs and a directory for each currency.  Every run of durs reads both  *)
(* files, makes those that are missing, and executes one command: the      *)
(* server, or a command that may write one of the files again.  A file is  *)
(* written in two steps (created empty, then filled), and nothing keeps    *)
(* two processes from the same profile; a process may be killed between    *)
(* any two steps.                                                          *)
(*                                                                         *)
(* Names, keys and node identifiers are values, random ones are numbers    *)
(* drawn in turn.  What the server does then is in the other modules; what *)
(* durs sync does before and after it writes the currency is in LocalSync. *)
(***************************************************************************)
EXTENDS Naturals, Sequences, FiniteSets

CONSTANTS
    Proc,
    Priority,           \* of each module plugged: "Essential", "Recommended" or "Optional"
    Network,            \* the network modules
    MemberKeyModules,   \* the modules that require the member key pair
    Currency,
    PubKey, Quota,      \* what a user configuration of ws2p1 can hold
    None,               \* what is not there
    Commands,           \* the commands there are
    MaxDraws,           \* bound: random numbers; more than the commands draw
    Scenarios           \* bound: the files there are, the commands of each process, who may be killed

Module == DOMAIN Priority
Absent == [file |-> "absent"]
Created == [file |-> "created"]     \* what File::create leaves, and a kill
Mixed == [file |-> "mixed"]         \* two processes wrote into it at once
Holds(what) == [file |-> "whole", content |-> what]

VARIABLES
    disk,       \* profile, conf, keys, currencies
    proc,       \* the processes
    user,       \* the commands to come, and what those that ended have asked for
    drawn       \* random numbers drawn so far

vars == <<disk, proc, user, drawn>>

-----------------------------------------------------------------------------
(* Configurations *)

UserConfs == [outcoming_quota : Quota \cup {None}, prefered_pubkeys : (SUBSET PubKey) \cup {None}]
Conf == [version : {1, 2}, currency : Currency, my_node_id : Nat,
         disabled : SUBSET Module, enabled : SUBSET Module,
         modules : UNION {[D -> UserConfs \cup {None}] : D \in SUBSET Module}]

DefaultConf(id) ==
    [version |-> 2, currency |-> "g1", my_node_id |-> id, disabled |-> {}, enabled |-> {},
     modules |-> [m \in {} |-> None]]
upgrade(conf) == [conf EXCEPT !.version = 2]

disable(conf, m) == [conf EXCEPT !.disabled = @ \cup {m}, !.enabled = @ \ {m}]
enable(conf, m) == [conf EXCEPT !.disabled = @ \ {m}, !.enabled = @ \cup {m}]
set_currency(conf, currency) == [conf EXCEPT !.currency = currency]

set_module_conf(conf, m, user_conf) ==
    [conf EXCEPT !.modules = [k \in DOMAIN @ \cup {m} |-> IF k = m THEN user_conf ELSE @[k]]]

\* Mutant of enabled: an essential module can be disabled.
EnabledUnlessDisabled(conf, m) ==
    IF Priority[m] = "Optional" THEN m \in conf.enabled ELSE m \notin conf.disabled

enabled(conf, m) ==
    CASE Priority[m] = "Essential" -> TRUE
      [] Priority[m] = "Recommended" -> m \notin conf.disabled
      [] Priority[m] = "Optional" -> m \in conf.enabled

\* A module without configuration, or with null, has no user configuration.
UserConf(conf, m) == IF m \in DOMAIN conf.modules THEN conf.modules[m] ELSE None

-----------------------------------------------------------------------------
(* durs ws2p1 prefered: the preferred keys of the user configuration *)

FirstKeys(random) == [network |-> random, member |-> None]

NoUserConf == [outcoming_quota |-> None, prefered_pubkeys |-> None]
Some(user_conf) == IF user_conf = None THEN NoUserConf ELSE user_conf
Prefered(user_conf) ==
    IF user_conf = None \/ Some(user_conf).prefered_pubkeys = None THEN {} ELSE user_conf.prefered_pubkeys

WithPrefered(user_conf, keys) == [Some(user_conf) EXCEPT !.prefered_pubkeys = keys]

\* add-file keeps what is there when the file cannot be read to its end.
prefered(user_conf, opts) ==
    CASE opts.do = "add" -> WithPrefered(user_conf, Prefered(user_conf) \cup opts.keys)
      [] opts.do = "rem" -> WithPrefered(user_conf, Prefered(user_conf) \ opts.keys)
      [] opts.do = "add-file" ->
            IF opts.readable THEN WithPrefered(user_conf, Prefered(user_conf) \cup opts.keys) ELSE user_conf
      [] opts.do = "clear" -> IF user_conf = None THEN None ELSE WithPrefered(user_conf, None)
      [] opts.do = "show" -> user_conf

\* What the module runs with: fields_overload! over WS2PConf::default(). The user's own
\* sync_endpoints, which no command writes, are left out.
ws2p1_conf(conf) ==
    [outcoming_quota |-> IF Some(UserConf(conf, "ws2p1")).outcoming_quota = None
                         THEN "10" ELSE UserConf(conf, "ws2p1").outcoming_quota,
     prefered_pubkeys |-> Prefered(UserConf(conf, "ws2p1")),
     sync_endpoints |-> IF conf.currency = "g1-test" THEN "g1-test" ELSE "g1"]

-----------------------------------------------------------------------------
(* Commands *)

WritesConf == {"enable", "disable", "prefered", "sync"}
WritesKeys == {"keys modify network", "keys modify member", "keys clear", "keys wizard"}

\* What a command writes of the configuration it has read.
NewConf(conf, c) ==
    CASE c.op = "enable" -> enable(conf, c.module)
      [] c.op = "disable" -> disable(conf, c.module)
      [] c.op = "prefered" -> set_module_conf(conf, "ws2p1", prefered(UserConf(conf, "ws2p1"), c))
      [] c.op = "sync" -> set_currency(conf, c.currency)

\* What a command writes of the keys; random is the key that clear draws. A wizard whose
\* questions are not answered panics before it writes: that is a Kill at this moment.
NewKeys(keys, c, random) ==
    CASE c.op = "keys modify network" -> [keys EXCEPT !.network = c.key]
      [] c.op = "keys modify member" -> [keys EXCEPT !.member = c.key]
      [] c.op = "keys clear" ->
            [network |-> IF c.network THEN random ELSE keys.network,
             member |-> IF c.member THEN None ELSE keys.member]
      [] c.op = "keys wizard" ->
            [network |-> IF c.network = "y" THEN c.key ELSE keys.network,
             member |-> IF c.member = "y" THEN c.key ELSE IF c.member = "d" THEN None ELSE keys.member]

\* durs modules: the filters, and what is said of a module that passes them.
module_valid_filters(conf, m, filters) ==
    /\ "network" \in filters => m \in Network
    /\ "secret" \in filters => m \in MemberKeyModules
    /\ "enabled" \in filters => enabled(conf, m)
    /\ "disabled" \in filters => ~enabled(conf, m)

Listed(conf, filters) ==
    [m \in {k \in Module : module_valid_filters(conf, k, filters)} |->
        IF enabled(conf, m) THEN "enabled" ELSE "disabled"]

\* plug_: the modules the server starts.
Plugged(conf) == {m \in Module : enabled(conf, m)}

-----------------------------------------------------------------------------
(* Processes *)

\* What the user has asked for, by the commands that have ended: a switch of a
\* module, preferred keys.
Asks == [switch : [Module -> {None, "enabled", "disabled"}], prefered : SUBSET PubKey]
NothingAsked == [switch |-> [m \in Module |-> None], prefered |-> {}]
Asked(asked, c) ==
    CASE c.op = "enable" -> [asked EXCEPT !.switch[c.module] = "enabled"]
      [] c.op = "disable" -> [asked EXCEPT !.switch[c.module] = "disabled"]
      [] c.op = "prefered" /\ c.do = "add" -> [asked EXCEPT !.prefered = @ \cup c.keys]
      [] c.op = "prefered" /\ c.do = "add-file" /\ c.readable -> [asked EXCEPT !.prefered = @ \cup c.keys]
      [] c.op = "prefered" /\ c.do = "rem" -> [asked EXCEPT !.prefered = @ \ c.keys]
      [] c.op = "prefered" /\ c.do = "clear" -> [asked EXCEPT !.prefered = {}]
      [] OTHER -> asked

\* A configuration says what was asked for.
Agree(conf, asked) ==
    /\ \A m \in Module : /\ m \in conf.disabled <=> asked.switch[m] = "disabled"
                         /\ m \in conf.enabled <=> asked.switch[m] = "enabled"
    /\ Prefered(UserConf(conf, "ws2p1")) = asked.prefered

ASSUME NamesAssumption ==
    /\ \A m \in Module : Priority[m] \in {"Essential", "Recommended", "Optional"}
    /\ "ws2p1" \in Module /\ "g1" \in Currency
    /\ \A value \in UserConfs \cup (SUBSET PubKey) \cup {"enabled", "disabled"} : value # None

ASSUME CommandsAssumption ==
    \A c \in Commands :
        /\ c.op \in {"enable", "disable"} => c.module \in Module
        /\ c.op = "sync" => c.currency \in Currency
        /\ c.op = "prefered" => /\ c.do \in {"add", "rem", "add-file", "clear", "show"}
                                /\ c.keys \subseteq PubKey /\ c.readable \in BOOLEAN

\* The files there are may be those of an interrupted run; a configuration that
\* is whole was made by the commands the user remembers.
ASSUME ScenariosAssumption ==
    \A s \in Scenarios :
        /\ DOMAIN s = {"disk", "alone", "kills", "asked", "commands"}
        /\ s.commands \in [Proc -> Seq(Commands)] /\ s.asked \in Asks
        /\ DOMAIN s.disk = {"profile", "conf", "keys", "currencies"}
        /\ s.disk.profile \/ (s.disk.conf = Absent /\ s.disk.keys = Absent /\ s.disk.currencies = {})
        /\ \A file \in {"conf", "keys"} : \/ s.disk[file] \in {Absent, Created, Mixed}
                                          \/ s.disk[file] = Holds(s.disk[file].content)
        /\ s.disk.currencies \subseteq Currency
        /\ s.disk.keys.file = "whole" => DOMAIN s.disk.keys.content = {"network", "member"}
        /\ s.disk.conf.file = "whole" => /\ s.disk.conf.content \in Conf
                                         /\ s.disk.conf.content.enabled \cap s.disk.conf.content.disabled = {}
                                         /\ s.alone => Agree(s.disk.conf.content, s.asked)
        /\ s.alone /\ s.disk.conf = Absent => s.asked = NothingAsked

Ended == {"off", "done", "failed", "killed"}
Goes(p, pc) == proc' = [proc EXCEPT ![p].pc = pc]

Launch(p) ==
    /\ proc[p].pc \in Ended /\ user.commands[p] # <<>>
    /\ user.alone => \A q \in Proc : proc[q].pc \in Ended
    /\ proc' = [proc EXCEPT ![p] = [@ EXCEPT !.pc = IF disk.profile THEN "read keys" ELSE "make profile",
                                             !.command = Head(user.commands[p])]]
    /\ user' = [user EXCEPT !.commands[p] = Tail(@)]
    /\ UNCHANGED <<disk, drawn>>

\* fs::create_dir fails when the directory came to be since it was looked for.
MakeProfile(p) ==
    /\ proc[p].pc = "make profile"
    /\ Goes(p, IF disk.profile THEN "failed" ELSE "read keys")
    /\ disk' = [disk EXCEPT !.profile = TRUE]
    /\ UNCHANGED <<user, drawn>>

\* To write: the process has the content, and where it goes on after.
Writes(p, file, content, then) ==
    proc' = [proc EXCEPT ![p] = [@ EXCEPT !.pc = "create", !.file = file, !.content = content, !.then = then,
                                          !.conf = IF file = "conf" THEN content ELSE proc[p].conf,
                                          !.keys = IF file = "keys" THEN content ELSE proc[p].keys]]

\* Mutant of ReadKeys: keys that cannot be read are made anew.
RenewsKeys(p) ==
    /\ proc[p].pc = "read keys"
    /\ IF disk.keys.file = "whole"
       THEN proc' = [proc EXCEPT ![p] = [@ EXCEPT !.pc = "read conf", !.keys = disk.keys.content]] /\ UNCHANGED drawn
       ELSE Writes(p, "keys", FirstKeys(drawn), "read conf") /\ drawn' = drawn + 1
    /\ UNCHANGED <<disk, user>>

ReadKeys(p) ==
    /\ proc[p].pc = "read keys"
    /\ \/ /\ disk.keys = Absent
          /\ Writes(p, "keys", FirstKeys(drawn), "read conf")
          /\ drawn' = drawn + 1
       \/ /\ disk.keys.file = "whole"
          /\ proc' = [proc EXCEPT ![p] = [@ EXCEPT !.pc = "read conf", !.keys = disk.keys.content]]
          /\ UNCHANGED drawn
       \/ /\ disk.keys # Absent /\ disk.keys.file # "whole"
          /\ Goes(p, "failed") /\ UNCHANGED drawn
    /\ UNCHANGED <<disk, user>>

ReadConf(p) ==
    /\ proc[p].pc = "read conf"
    /\ \/ /\ disk.conf = Absent
          /\ Writes(p, "conf", DefaultConf(drawn), "find currency")
          /\ drawn' = drawn + 1
       \/ /\ disk.conf.file = "whole" /\ disk.conf.content.version = 1
          /\ Writes(p, "conf", upgrade(disk.conf.content), "find currency")
          /\ UNCHANGED drawn
       \/ /\ disk.conf.file = "whole" /\ disk.conf.content.version = 2
          /\ proc' = [proc EXCEPT ![p] = [@ EXCEPT !.pc = "find currency", !.conf = disk.conf.content]]
          /\ UNCHANGED drawn
       \/ /\ disk.conf # Absent /\ ~(disk.conf.file = "whole" /\ disk.conf.content.version \in {1, 2})
          /\ Goes(p, "failed") /\ UNCHANGED drawn
    /\ UNCHANGED <<disk, user>>

\* File::create makes the file empty, whatever it was.
CreateFile(p) ==
    /\ proc[p].pc = "create"
    /\ IF disk.profile
       THEN Goes(p, "write") /\ disk' = [disk EXCEPT ![proc[p].file] = Created]
       ELSE Goes(p, "failed") /\ UNCHANGED disk
    /\ UNCHANGED <<user, drawn>>

\* A file removed in the meantime stays removed; one that another process
\* filled in the meantime is written over from its beginning.
WriteFile(p) ==
    /\ proc[p].pc = "write"
    /\ Goes(p, proc[p].then)
    /\ \E result \in IF disk[proc[p].file] = Absent THEN {Absent}
                     ELSE IF disk[proc[p].file] = Created THEN {Holds(proc[p].content)}
                     ELSE {Holds(proc[p].content), Mixed} :
            disk' = [disk EXCEPT ![proc[p].file] = result]
    /\ user' = IF proc[p].file = "conf" /\ proc[p].then = "done" THEN [user EXCEPT !.asked = Asked(@, proc[p].command)] ELSE user
    /\ UNCHANGED drawn

FindCurrency(p) ==
    /\ proc[p].pc = "find currency"
    /\ Goes(p, IF proc[p].conf.currency \in disk.currencies THEN "execute" ELSE "make currency")
    /\ UNCHANGED <<disk, user, drawn>>

MakeCurrency(p) ==
    /\ proc[p].pc = "make currency"
    /\ IF disk.profile /\ proc[p].conf.currency \notin disk.currencies
       THEN Goes(p, "execute") /\ disk' = [disk EXCEPT !.currencies = @ \cup {proc[p].conf.currency}]
       ELSE Goes(p, "failed") /\ UNCHANGED disk
    /\ UNCHANGED <<user, drawn>>

Executes(p, ops) == proc[p].pc = "execute" /\ proc[p].command.op \in ops

ExecuteConfCommand(p) ==
    /\ Executes(p, WritesConf)
    /\ Writes(p, "conf", NewConf(proc[p].conf, proc[p].command), "done")
    /\ UNCHANGED <<disk, user, drawn>>

ExecuteKeysCommand(p) ==
    /\ Executes(p, WritesKeys)
    /\ Writes(p, "keys", NewKeys(proc[p].keys, proc[p].command, drawn), "done")
    /\ drawn' = drawn + 1
    /\ UNCHANGED <<disk, user>>

\* keys show, dbex; modules prints the list.
ExecuteShow(p) ==
    /\ Executes(p, {"show", "modules"})
    /\ proc' = [proc EXCEPT ![p] = [@ EXCEPT !.pc = "done",
            !.listed = IF proc[p].command.op = "modules" THEN Listed(proc[p].conf, proc[p].command.filters)
                       ELSE proc[p].listed]]
    /\ UNCHANGED <<disk, user, drawn>>

\* reset data removes the directory "g1", whatever the currency.
ExecuteReset(p) ==
    /\ Executes(p, {"reset data", "reset conf", "reset all"})
    /\ \/ /\ proc[p].command.op = "reset data"
          /\ Goes(p, IF "g1" \in disk.currencies THEN "done" ELSE "failed")
          /\ disk' = [disk EXCEPT !.currencies = @ \ {"g1"}]
          /\ UNCHANGED user
       \/ /\ proc[p].command.op = "reset conf"
          /\ Goes(p, IF disk.conf # Absent THEN "done" ELSE "failed")
          /\ disk' = [disk EXCEPT !.conf = Absent]
          /\ user' = [user EXCEPT !.asked = NothingAsked]
       \/ /\ proc[p].command.op = "reset all"
          /\ Goes(p, IF disk.profile THEN "done" ELSE "failed")
          /\ disk' = [profile |-> FALSE, conf |-> Absent, keys |-> Absent, currencies |-> {}]
          /\ user' = [user EXCEPT !.asked = NothingAsked]
    /\ UNCHANGED drawn

\* The server goes on with the configuration and the keys it has read.
ExecuteStart(p) ==
    /\ Executes(p, {"start"})
    /\ proc' = [proc EXCEPT ![p] = [@ EXCEPT !.pc = "serve", !.modules = Plugged(proc[p].conf),
                                             !.ws2p1 = ws2p1_conf(proc[p].conf)]]
    /\ UNCHANGED <<disk, user, drawn>>

Stop(p) ==
    /\ proc[p].pc = "serve" /\ Goes(p, "done")
    /\ UNCHANGED <<disk, user, drawn>>

Kill(p) ==
    /\ proc[p].pc \notin Ended /\ user.kills > 0
    /\ user' = [user EXCEPT !.kills = @ - 1]
    /\ Goes(p, "killed")
    /\ UNCHANGED <<disk, drawn>>

-----------------------------------------------------------------------------
Init ==
    /\ user \in Scenarios
    /\ disk = user.disk
    /\ drawn = 1
    /\ proc = [p \in Proc |->
                  [pc |-> "off", command |-> [op |-> "show"], conf |-> DefaultConf(0),
                   keys |-> [network |-> None, member |-> None], file |-> "conf", content |-> None, then |-> "done",
                   listed |-> [m \in {} |-> None], modules |-> {}, ws2p1 |-> ws2p1_conf(DefaultConf(0))]]

Load(p) == MakeProfile(p) \/ ReadKeys(p) \/ ReadConf(p) \/ FindCurrency(p) \/ MakeCurrency(p)
Write(p) == CreateFile(p) \/ WriteFile(p)
Execute(p) == ExecuteConfCommand(p) \/ ExecuteKeysCommand(p) \/ ExecuteShow(p) \/ ExecuteReset(p) \/ ExecuteStart(p)

Next == \E p \in Proc : Launch(p) \/ Load(p) \/ Write(p) \/ Execute(p) \/ Stop(p) \/ Kill(p)

Spec == Init /\ [][Next]_vars

-----------------------------------------------------------------------------
(* Properties *)

Whole(file) == disk[file].file = "whole"

\* A module is never both enabled and disabled, in the file or in the memory of
\* a process, whatever the commands and their order.
TypeOK ==
    /\ \A file \in {"conf", "keys"} : disk[file].file \in {"absent", "created", "whole", "mixed"}
    /\ disk.profile \/ (disk.conf = Absent /\ disk.keys = Absent /\ disk.currencies = {})
    /\ disk.currencies \subseteq Currency
    /\ \A conf \in {proc[p].conf : p \in Proc} \cup (IF Whole("conf") THEN {disk.conf.content} ELSE {}) :
            /\ conf.version \in {1, 2} /\ conf.currency \in Currency
            /\ conf.enabled \subseteq Module /\ conf.disabled \subseteq Module
            /\ conf.enabled \cap conf.disabled = {}
            /\ DOMAIN conf.modules \subseteq Module

\* A file as the user sees it: a file just created is the content of the
\* process that is writing it, and lost when that process was killed.
Writers(file) == {p \in Proc : proc[p].pc = "write" /\ proc[p].file = file}
Seen(file) ==
    CASE disk[file] = Absent -> Absent
      [] Whole(file) -> disk[file].content
      [] disk[file] = Created /\ Writers(file) # {} -> proc[CHOOSE p \in Writers(file) : TRUE].content
      [] OTHER -> Created

CommandsOf(ops) == {c \in Commands : c.op \in ops}
Store == INSTANCE ProfileStore WITH
    ConfCommands <- CommandsOf(WritesConf), ConfAfter <- NewConf, FirstConf <- DefaultConf, Upgraded <- upgrade,
    KeysCommands <- CommandsOf(WritesKeys), KeysAfter <- NewKeys,
    FirstKeys <- FirstKeys,
    Random <- 0 .. MaxDraws, Nothing <- Absent, Lost <- Created, conf <- Seen("conf"), keys <- Seen("keys")

\* Commands of one process after another, or of several at a time that do not
\* write the same file, change the profile as if each were one step: no update
\* is lost and nothing is made anew over what cannot be read.
CommandsAreAtomic == Store!Spec

\* The server starts with what the user has asked for by the commands that have
\* ended since the profile was made or reset: the modules and the preferred keys.
ServerObeysUser == \A p \in Proc : proc[p].pc = "serve" /\ user.alone =>
    /\ \A m \in Module : m \in proc[p].modules <=>
            Priority[m] = "Essential" \/ user.asked.switch[m] = "enabled"
            \/ (Priority[m] = "Recommended" /\ user.asked.switch[m] # "disabled")
    /\ proc[p].ws2p1.prefered_pubkeys = user.asked.prefered

\* The lists of modules stay disjoint, and the server obeys them.
ProfileObeysUser == TypeOK /\ ServerObeysUser

-----------------------------------------------------------------------------
(* What comments, documentation or names of the code say and the code does *)
(* not do: the README names the configuration that shows each.             *)

\* A command does not fail because another runs at the same time.
NoCommandFails == \A p \in Proc : proc[p].pc # "failed"

\* "Reset data or conf or all": after a reset of everything nothing of the
\* profile is left.
ResetAllResets == \A p \in Proc : proc[p].pc = "failed" /\ proc[p].command.op = "reset all" => ~disk.profile

\* After a reset of the data no data of the currency is left.
ResetDataResets == \A p \in Proc : proc[p].pc = "done" /\ proc[p].command.op = "reset data" /\ user.alone =>
    proc[p].conf.currency \notin disk.currencies

\* The server signs with the network key that the profile holds, until a
\* command changes it.
ServerKeyIsSaved == \A p \in Proc : proc[p].pc = "serve" /\ Whole("keys") =>
    disk.keys.content.network = proc[p].keys.network
=============================================================================
