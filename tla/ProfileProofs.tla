--------------------------- MODULE ProfileProofs ---------------------------
(***************************************************************************)
(* Proofs about Profile, for all modules, commands, scenarios and numbers  *)
(* of processes: the files and the processes are well typed, whoever writes *)
(* into what at the same time; a server that is started when no other      *)
(* process runs obeys the commands that ended before it; and commands that *)
(* do not claim the same file are atomic (ProfileStore).                   *)
(***************************************************************************)
EXTENDS Profile, TLAPS

-----------------------------------------------------------------------------
(* The inductive invariant.                                                *)

SoundConf == {conf \in Conf : conf.enabled \cap conf.disabled = {}}

FilesOK(d) ==
    /\ DOMAIN d = {"profile", "conf", "keys", "currencies"}
    /\ d.profile \/ (d.conf = Absent /\ d.keys = Absent /\ d.currencies = {})
    /\ d.conf.file \in {"absent", "created", "whole", "mixed"}
    /\ d.keys.file \in {"absent", "created", "whole", "mixed"}
    /\ d.currencies \subseteq Currency
    /\ d.conf.file = "whole" => d.conf.content \in SoundConf

UserOK(u) ==
    /\ DOMAIN u = {"disk", "alone", "kills", "asked", "commands"}
    /\ u.commands \in [Proc -> Seq(Commands)] /\ u.asked \in Asks

\* A process that is to write a configuration is to write the one it has.
ProcOK(q) ==
    /\ DOMAIN q = {"pc", "command", "conf", "keys", "file", "content", "then", "listed", "modules", "ws2p1"}
    /\ q.command \in Commands \cup {[op |-> "show"]}
    /\ q.conf \in SoundConf
    /\ q.file \in {"conf", "keys"}
    /\ q.pc \in {"create", "write"} /\ q.file = "conf" => q.content = q.conf

\* What is asked for when processes run one at a time.

OneAtATime == \A p, q \in Proc : p # q => proc[p].pc \in Ended \/ proc[q].pc \in Ended

FileAgrees(d, asked) ==
    /\ d.conf = Absent => asked = NothingAsked
    /\ d.conf.file = "whole" => Agree(d.conf.content, asked)

\* The command that writes its configuration is asked for once it has.
ProcAgrees(q, d, asked) ==
    /\ q.pc \in {"find currency", "make currency", "execute", "serve"} => Agree(q.conf, asked)
    /\ q.pc \in {"create", "write"} /\ q.file = "conf" =>
          \/ q.then = "find currency" /\ Agree(q.conf, asked)
          \/ q.then = "done" /\ Agree(q.conf, Asked(asked, q.command))
    /\ q.pc \in {"create", "write"} /\ q.file = "keys" => q.then \in {"read conf", "done"}
    /\ q.pc = "write" => d[q.file] = Created
    /\ q.pc = "serve" => q.modules = Plugged(q.conf) /\ q.ws2p1 = ws2p1_conf(q.conf)

Typed ==
    /\ FilesOK(disk) /\ UserOK(user) /\ drawn \in Nat
    /\ DOMAIN proc = Proc /\ \A p \in Proc : ProcOK(proc[p])

IInv ==
    /\ Typed
    /\ user.alone => /\ OneAtATime /\ FileAgrees(disk, user.asked)
                     /\ \A p \in Proc : ProcAgrees(proc[p], disk, user.asked)

-----------------------------------------------------------------------------
(* Configurations.                                                         *)

\* A new configuration and one brought to the current version are sound.
LEMMA SoundDefault == ASSUME NEW n \in Nat PROVE DefaultConf(n) \in SoundConf
<1> DEFINE none == [m \in {} |-> None]
<1>1. none \in UNION {[D -> UserConfs \cup {None}] : D \in SUBSET Module}
  <2>1. none \in [{} -> UserConfs \cup {None}]
    OBVIOUS
  <2> QED BY <2>1
<1> HIDE DEF none
<1> QED BY <1>1, NamesAssumption DEF DefaultConf, SoundConf, Conf, none

LEMMA SoundUpgrade == ASSUME NEW conf \in SoundConf PROVE upgrade(conf) \in SoundConf
BY DEF upgrade, SoundConf, Conf

\* The user configuration of a module is one, or none.
LEMMA UserConfType ==
    ASSUME NEW conf \in Conf, NEW m
    PROVE  UserConf(conf, m) \in UserConfs \cup {None}
<1>1. PICK D \in SUBSET Module : conf.modules \in [D -> UserConfs \cup {None}]
  BY DEF Conf
<1> QED BY <1>1 DEF UserConf

\* The preferred keys of a configuration that has been given some are those.
LEMMA WithPreferedType ==
    ASSUME NEW uc \in UserConfs \cup {None}, NEW keys \in SUBSET PubKey
    PROVE  /\ WithPrefered(uc, keys) \in UserConfs /\ Prefered(WithPrefered(uc, keys)) = keys
           /\ WithPrefered(uc, None) \in UserConfs /\ Prefered(WithPrefered(uc, None)) = {}
           /\ Prefered(uc) \subseteq PubKey
<1>1. Some(uc) \in UserConfs
  BY DEF Some, NoUserConf, UserConfs
<1>2. keys # None /\ \A v \in UserConfs : v # None
  BY NamesAssumption
<1>3. /\ WithPrefered(uc, keys) \in UserConfs /\ WithPrefered(uc, keys).prefered_pubkeys = keys
      /\ WithPrefered(uc, None) \in UserConfs /\ WithPrefered(uc, None).prefered_pubkeys = None
  BY <1>1 DEF WithPrefered, UserConfs
<1>4. /\ Prefered(WithPrefered(uc, keys)) = keys
      /\ Prefered(WithPrefered(uc, None)) = {}
  BY <1>2, <1>3 DEF Prefered, Some
<1>5. Prefered(uc) \subseteq PubKey
  BY <1>1 DEF Prefered, Some, UserConfs
<1> QED BY <1>3, <1>4, <1>5

\* What durs ws2p1 prefered makes of a user configuration is one again, and its
\* keys are those that were asked for.
LEMMA PreferedFollows ==
    ASSUME NEW uc \in UserConfs \cup {None}, NEW c \in Commands, c.op = "prefered",
           NEW asked \in Asks, Prefered(uc) = asked.prefered
    PROVE  /\ prefered(uc, c) \in UserConfs \cup {None}
           /\ Prefered(prefered(uc, c)) = Asked(asked, c).prefered
           /\ Asked(asked, c).switch = asked.switch /\ Asked(asked, c) \in Asks
<1>1. /\ c.do \in {"add", "rem", "add-file", "clear", "show"}
      /\ c.keys \subseteq PubKey /\ c.readable \in BOOLEAN
  BY CommandsAssumption
<1>2. Prefered(uc) \cup c.keys \in SUBSET PubKey /\ Prefered(uc) \ c.keys \in SUBSET PubKey
  BY <1>1, WithPreferedType
<1>3. CASE c.do = "add" \/ (c.do = "add-file" /\ c.readable)
  <2>1. prefered(uc, c) = WithPrefered(uc, Prefered(uc) \cup c.keys)
    BY <1>3 DEF prefered
  <2>2. Asked(asked, c) = [asked EXCEPT !.prefered = @ \cup c.keys]
    BY <1>3 DEF Asked
  <2> QED BY <1>2, <2>1, <2>2, WithPreferedType DEF Asks
<1>4. CASE c.do = "rem"
  <2>1. prefered(uc, c) = WithPrefered(uc, Prefered(uc) \ c.keys)
    BY <1>4 DEF prefered
  <2>2. Asked(asked, c) = [asked EXCEPT !.prefered = @ \ c.keys]
    BY <1>4 DEF Asked
  <2> QED BY <1>2, <2>1, <2>2, WithPreferedType DEF Asks
<1>5. CASE c.do = "clear"
  <2>1. prefered(uc, c) = IF uc = None THEN None ELSE WithPrefered(uc, None)
    BY <1>5 DEF prefered
  <2>2. Asked(asked, c) = [asked EXCEPT !.prefered = {}]
    BY <1>5 DEF Asked
  <2>3. Prefered(None) = {} /\ {} \in SUBSET PubKey
    BY DEF Prefered
  <2> QED BY <2>1, <2>2, <2>3, WithPreferedType DEF Asks
<1>6. CASE c.do = "show" \/ (c.do = "add-file" /\ ~c.readable)
  <2>1. prefered(uc, c) = uc /\ Asked(asked, c) = asked
    BY <1>6 DEF prefered, Asked
  <2> QED BY <2>1
<1> QED BY <1>1, <1>3, <1>4, <1>5, <1>6

\* Only ws2p1 gets another user configuration.
LEMMA ModuleConfSet ==
    ASSUME NEW conf \in SoundConf, NEW uc \in UserConfs \cup {None}
    PROVE  /\ set_module_conf(conf, "ws2p1", uc) \in SoundConf
           /\ set_module_conf(conf, "ws2p1", uc).disabled = conf.disabled
           /\ set_module_conf(conf, "ws2p1", uc).enabled = conf.enabled
           /\ UserConf(set_module_conf(conf, "ws2p1", uc), "ws2p1") = uc
<1> DEFINE old == conf.modules
           new == [k \in DOMAIN old \cup {"ws2p1"} |-> IF k = "ws2p1" THEN uc ELSE old[k]]
<1>1. PICK D \in SUBSET Module : old \in [D -> UserConfs \cup {None}]
  BY DEF SoundConf, Conf
<1>2. D \cup {"ws2p1"} \in SUBSET Module
  BY NamesAssumption
<1>3. new \in [D \cup {"ws2p1"} -> UserConfs \cup {None}]
  BY <1>1
<1>4. new \in UNION {[E -> UserConfs \cup {None}] : E \in SUBSET Module}
  BY <1>2, <1>3
<1>5. "ws2p1" \in DOMAIN new /\ new["ws2p1"] = uc
  OBVIOUS
<1>6. set_module_conf(conf, "ws2p1", uc) = [conf EXCEPT !.modules = new]
  BY DEF set_module_conf, SoundConf, Conf
<1> HIDE DEF new
<1> QED BY <1>4, <1>5, <1>6 DEF SoundConf, Conf, UserConf

\* A command leaves a sound configuration, and one that says what was asked for
\* says so with the command.
LEMMA CommandFollows ==
    ASSUME NEW conf \in SoundConf, NEW c \in Commands, c.op \in WritesConf, NEW asked \in Asks
    PROVE  /\ NewConf(conf, c) \in SoundConf /\ Asked(asked, c) \in Asks
           /\ Agree(conf, asked) => Agree(NewConf(conf, c), Asked(asked, c))
<1>1. CASE c.op \in {"enable", "disable"}
  <2>1. c.module \in Module
    BY <1>1, CommandsAssumption
  <2>2. NewConf(conf, c) \in SoundConf
    BY <1>1, <2>1 DEF NewConf, enable, disable, SoundConf, Conf
  <2>3. UserConf(NewConf(conf, c), "ws2p1") = UserConf(conf, "ws2p1")
    BY <1>1 DEF NewConf, enable, disable, UserConf, SoundConf, Conf
  <2>4. Asked(asked, c) = [asked EXCEPT !.switch[c.module] = IF c.op = "enable" THEN "enabled" ELSE "disabled"]
    BY <1>1 DEF Asked
  <2>5. /\ Asked(asked, c) \in Asks /\ Asked(asked, c).prefered = asked.prefered
        /\ \A m \in Module : Asked(asked, c).switch[m] =
              IF m # c.module THEN asked.switch[m] ELSE IF c.op = "enable" THEN "enabled" ELSE "disabled"
    BY <2>1, <2>4 DEF Asks
  <2>6. CASE c.op = "enable"
    <3>1. /\ NewConf(conf, c).disabled = conf.disabled \ {c.module}
          /\ NewConf(conf, c).enabled = conf.enabled \cup {c.module}
      BY <2>6 DEF NewConf, enable, SoundConf, Conf
    <3> QED BY <2>2, <2>3, <2>5, <2>6, <3>1 DEF Agree
  <2>7. CASE c.op = "disable"
    <3>1. /\ NewConf(conf, c).disabled = conf.disabled \cup {c.module}
          /\ NewConf(conf, c).enabled = conf.enabled \ {c.module}
      BY <2>7 DEF NewConf, disable, SoundConf, Conf
    <3> QED BY <2>2, <2>3, <2>5, <2>7, <3>1 DEF Agree
  <2> QED BY <1>1, <2>6, <2>7
<1>2. CASE c.op = "prefered"
  <2> DEFINE uc == prefered(UserConf(conf, "ws2p1"), c)
  <2>1. UserConf(conf, "ws2p1") \in UserConfs \cup {None}
    BY UserConfType DEF SoundConf
  <2>2. NewConf(conf, c) = set_module_conf(conf, "ws2p1", uc)
    BY <1>2 DEF NewConf
  <2>3. PICK some \in Asks : Prefered(UserConf(conf, "ws2p1")) = some.prefered /\ some.switch = asked.switch
    <3>1. [asked EXCEPT !.prefered = Prefered(UserConf(conf, "ws2p1"))] \in Asks
      BY <2>1, WithPreferedType DEF Asks
    <3> QED BY <3>1 DEF Asks
  <2>4. uc \in UserConfs \cup {None}
    BY <1>2, <2>1, <2>3, PreferedFollows
  <2>5. Asked(asked, c) \in Asks
    BY <1>2, CommandsAssumption DEF Asked, Asks
  <2>6. ASSUME Agree(conf, asked)
        PROVE  Agree(NewConf(conf, c), Asked(asked, c))
    <3>1. /\ Prefered(uc) = Asked(asked, c).prefered
          /\ Asked(asked, c).switch = asked.switch
      BY <1>2, <2>1, <2>6, PreferedFollows DEF Agree
    <3> QED BY <2>2, <2>4, <2>6, <3>1, ModuleConfSet DEF Agree
  <2> QED BY <2>2, <2>4, <2>5, <2>6, ModuleConfSet
<1>3. CASE c.op = "sync"
  <2>1. NewConf(conf, c) = [conf EXCEPT !.currency = c.currency] /\ Asked(asked, c) = asked
    BY <1>3 DEF NewConf, set_currency, Asked
  <2>2. c.currency \in Currency
    BY <1>3, CommandsAssumption
  <2> QED BY <2>1, <2>2 DEF SoundConf, Conf, Agree, UserConf
<1> QED BY <1>1, <1>2, <1>3 DEF WritesConf

\* Whatever the command, what was asked for stays of its type.
LEMMA AskedType ==
    ASSUME NEW asked \in Asks, NEW c \in Commands \cup {[op |-> "show"]}
    PROVE  Asked(asked, c) \in Asks
<1>1. CASE c \in Commands
  BY <1>1, CommandsAssumption DEF Asked, Asks
<1>2. CASE c = [op |-> "show"]
  BY <1>2 DEF Asked
<1> QED BY <1>1, <1>2

\* The current version of a configuration says the same.
LEMMA UpgradeAgrees ==
    ASSUME NEW conf \in SoundConf, NEW asked, Agree(conf, asked)
    PROVE  Agree(upgrade(conf), asked)
BY DEF upgrade, SoundConf, Conf, Agree, UserConf

\* A new profile says that nothing was asked for.
LEMMA DefaultAgrees ==
    ASSUME NEW n
    PROVE  Agree(DefaultConf(n), NothingAsked) /\ NothingAsked \in Asks
<1>1. \A value \in {"enabled", "disabled"} : value # None
  BY NamesAssumption
<1> QED BY <1>1 DEF Agree, DefaultConf, NothingAsked, UserConf, Prefered, Asks

-----------------------------------------------------------------------------
(* The steps.                                                              *)

\* A step of one process keeps the invariant when the files, the user and that
\* process are right after it: the others, if they run, need only their types.
LEMMA ProcessMoves ==
    ASSUME IInv, NEW p \in Proc, NEW r, proc' = [proc EXCEPT ![p] = r],
           ProcOK(r), FilesOK(disk'), UserOK(user'), drawn' \in Nat, user'.alone = user.alone,
           user.alone => /\ \A q \in Proc : q # p => proc[q].pc \in Ended
                         /\ FileAgrees(disk', user'.asked) /\ ProcAgrees(r, disk', user'.asked)
    PROVE  IInv'
<1>1. DOMAIN proc' = Proc /\ proc'[p] = r /\ \A q \in Proc : q # p => proc'[q] = proc[q]
  BY DEF IInv, Typed
<1>2. Typed'
  BY <1>1 DEF IInv, Typed
<1>3. ASSUME user'.alone
      PROVE  /\ OneAtATime' /\ FileAgrees(disk', user'.asked)
             /\ \A q \in Proc : ProcAgrees(proc'[q], disk', user'.asked)
  <2>1. \A q \in Proc : q # p => proc'[q].pc \in Ended
    BY <1>1, <1>3
  <2>2. OneAtATime'
    BY <2>1 DEF OneAtATime
  <2>3. ASSUME NEW q \in Proc
        PROVE  ProcAgrees(proc'[q], disk', user'.asked)
    <3>1. CASE q = p
      BY <1>1, <1>3, <3>1
    <3>2. CASE q # p
      BY <2>1, <3>2 DEF ProcAgrees, Ended
    <3> QED BY <3>1, <3>2
  <2> QED BY <1>3, <2>2, <2>3
<1> QED BY <1>2, <1>3 DEF IInv

\* What holds of the process that moves, when it had not ended.
LEMMA Moving ==
    ASSUME IInv, NEW p \in Proc, proc[p].pc \notin Ended
    PROVE  /\ FilesOK(disk) /\ UserOK(user) /\ drawn \in Nat /\ ProcOK(proc[p])
           /\ DOMAIN proc = Proc
           /\ user.alone => /\ \A q \in Proc : q # p => proc[q].pc \in Ended
                            /\ FileAgrees(disk, user.asked) /\ ProcAgrees(proc[p], disk, user.asked)
BY DEF IInv, Typed, OneAtATime

\* The process that is to write.
Writing(q, file, content, then) ==
    [q EXCEPT !.pc = "create", !.file = file, !.content = content, !.then = then,
              !.conf = IF file = "conf" THEN content ELSE q.conf,
              !.keys = IF file = "keys" THEN content ELSE q.keys]

LEMMA WritesMoves ==
    ASSUME NEW p \in Proc, proc[p].pc \notin Ended, IInv,
           NEW file \in {"conf", "keys"}, NEW content, NEW then, Writes(p, file, content, then)
    PROVE  proc' = [proc EXCEPT ![p] = Writing(proc[p], file, content, then)]
BY Moving DEF Writes, Writing, ProcOK

LEMMA LaunchKeeps == ASSUME IInv, NEW p \in Proc, Launch(p) PROVE IInv'
<1> DEFINE r == [proc[p] EXCEPT !.pc = IF disk.profile THEN "read keys" ELSE "make profile",
                                !.command = Head(user.commands[p])]
<1>1. /\ FilesOK(disk) /\ UserOK(user) /\ drawn \in Nat /\ ProcOK(proc[p])
      /\ user.alone => FileAgrees(disk, user.asked)
  BY DEF IInv, Typed
<1>2. Head(user.commands[p]) \in Commands /\ Tail(user.commands[p]) \in Seq(Commands)
  BY <1>1 DEF Launch, UserOK
<1>3. /\ proc' = [proc EXCEPT ![p] = r]
      /\ user' = [user EXCEPT !.commands[p] = Tail(user.commands[p])]
  BY DEF Launch
<1>4. ProcOK(r) /\ ProcAgrees(r, disk, user.asked)
  BY <1>1, <1>2 DEF ProcOK, ProcAgrees
<1>5. UserOK(user') /\ user'.alone = user.alone /\ user'.asked = user.asked
  BY <1>1, <1>2, <1>3 DEF UserOK
<1>6. user.alone => \A q \in Proc : q # p => proc[q].pc \in Ended
  BY DEF Launch
<1> HIDE DEF r
<1> QED BY <1>1, <1>3, <1>4, <1>5, <1>6, ProcessMoves DEF Launch

\* Going on without writing.
LEMMA LoadKeeps == ASSUME IInv, NEW p \in Proc, Load(p) PROVE IInv'
<1>0. proc[p].pc \notin Ended
  BY DEF Load, MakeProfile, ReadKeys, ReadConf, FindCurrency, MakeCurrency, Ended
<1> DEFINE q == proc[p]
<1>m. /\ FilesOK(disk) /\ UserOK(user) /\ drawn \in Nat /\ ProcOK(q)
      /\ user.alone => /\ \A o \in Proc : o # p => proc[o].pc \in Ended
                       /\ FileAgrees(disk, user.asked) /\ ProcAgrees(q, disk, user.asked)
  BY <1>0, Moving
<1>1. CASE MakeProfile(p)
  <2> DEFINE r == [q EXCEPT !.pc = IF disk.profile THEN "failed" ELSE "read keys"]
  <2>1. proc' = [proc EXCEPT ![p] = r] /\ disk' = [disk EXCEPT !.profile = TRUE]
        /\ UNCHANGED <<user, drawn>>
    BY <1>1 DEF MakeProfile, Goes
  <2>2. ProcOK(r) /\ ProcAgrees(r, disk', user.asked)
    BY <1>m DEF ProcOK, ProcAgrees
  <2>3. FilesOK(disk') /\ disk'.conf = disk.conf
    BY <1>m, <2>1 DEF FilesOK
  <2> HIDE DEF r
  <2> QED BY <1>m, <2>1, <2>2, <2>3, ProcessMoves DEF FileAgrees
<1>2. CASE ReadKeys(p)
  <2>1. CASE Writes(p, "keys", FirstKeys(drawn), "read conf") /\ drawn' = drawn + 1
    <3> DEFINE r == Writing(q, "keys", FirstKeys(drawn), "read conf")
    <3>1. proc' = [proc EXCEPT ![p] = r]
      BY <1>0, <2>1, WritesMoves
    <3>2. ProcOK(r) /\ ProcAgrees(r, disk, user.asked)
      BY <1>m DEF ProcOK, ProcAgrees, Writing
    <3>3. UNCHANGED <<disk, user>>
      BY <1>2 DEF ReadKeys
    <3>4. drawn' \in Nat
      <4>1. drawn \in Nat /\ drawn' = drawn + 1
        BY <1>m, <2>1
      <4> QED BY <4>1
    <3> HIDE DEF r
    <3> QED BY <1>m, <3>1, <3>2, <3>3, <3>4, ProcessMoves
  <2>2. ASSUME NEW r \in {[q EXCEPT !.pc = "read conf", !.keys = disk.keys.content], [q EXCEPT !.pc = "failed"]},
               proc' = [proc EXCEPT ![p] = r], UNCHANGED drawn
        PROVE  IInv'
    <3>1. ProcOK(r) /\ ProcAgrees(r, disk, user.asked)
      BY <1>m DEF ProcOK, ProcAgrees
    <3>2. UNCHANGED <<disk, user>>
      BY <1>2 DEF ReadKeys
    <3> QED BY <1>m, <2>2, <3>1, <3>2, ProcessMoves
  <2> QED BY <1>2, <2>1, <2>2 DEF ReadKeys, Goes
<1>3. CASE ReadConf(p)
  <2>0. UNCHANGED <<disk, user>>
    BY <1>3 DEF ReadConf
  <2>1. ASSUME NEW conf \in SoundConf, user.alone => Agree(conf, user.asked),
               Writes(p, "conf", conf, "find currency"), drawn' \in Nat
        PROVE  IInv'
    <3> DEFINE r == Writing(q, "conf", conf, "find currency")
    <3>1. proc' = [proc EXCEPT ![p] = r]
      BY <1>0, <2>1, WritesMoves
    <3>2. ProcOK(r) /\ (user.alone => ProcAgrees(r, disk, user.asked))
      BY <1>m, <2>1 DEF ProcOK, ProcAgrees, Writing
    <3> HIDE DEF r
    <3> QED BY <1>m, <2>0, <2>1, <3>1, <3>2, ProcessMoves
  <2>2. CASE /\ disk.conf = Absent /\ drawn' = drawn + 1
             /\ Writes(p, "conf", DefaultConf(drawn), "find currency")
    <3>1. DefaultConf(drawn) \in SoundConf /\ (user.alone => Agree(DefaultConf(drawn), user.asked))
      BY <1>m, <2>2, SoundDefault, DefaultAgrees DEF FileAgrees
    <3>2. drawn' \in Nat
      <4>1. drawn \in Nat /\ drawn' = drawn + 1
        BY <1>m, <2>2
      <4> QED BY <4>1
    <3> QED BY <2>1, <2>2, <3>1, <3>2
  <2>3. CASE /\ disk.conf.file = "whole" /\ UNCHANGED drawn
             /\ Writes(p, "conf", upgrade(disk.conf.content), "find currency")
    <3>1. /\ upgrade(disk.conf.content) \in SoundConf
          /\ user.alone => Agree(upgrade(disk.conf.content), user.asked)
      BY <1>m, <2>3, SoundUpgrade, UpgradeAgrees DEF FileAgrees, FilesOK
    <3> QED BY <1>m, <2>1, <2>3, <3>1
  <2>4. CASE /\ disk.conf.file = "whole" /\ UNCHANGED drawn
             /\ proc' = [proc EXCEPT ![p] = [@ EXCEPT !.pc = "find currency", !.conf = disk.conf.content]]
    <3> DEFINE r == [q EXCEPT !.pc = "find currency", !.conf = disk.conf.content]
    <3>1. proc' = [proc EXCEPT ![p] = r]
      BY <2>4
    <3>2. ProcOK(r) /\ (user.alone => ProcAgrees(r, disk, user.asked))
      BY <1>m, <2>4 DEF ProcOK, ProcAgrees, FileAgrees, FilesOK
    <3> HIDE DEF r
    <3> QED BY <1>m, <2>0, <2>4, <3>1, <3>2, ProcessMoves
  <2>5. CASE Goes(p, "failed") /\ UNCHANGED drawn
    <3> DEFINE r == [q EXCEPT !.pc = "failed"]
    <3>1. proc' = [proc EXCEPT ![p] = r]
      BY <2>5 DEF Goes
    <3>2. ProcOK(r) /\ ProcAgrees(r, disk, user.asked)
      BY <1>m DEF ProcOK, ProcAgrees
    <3> HIDE DEF r
    <3> QED BY <1>m, <2>0, <2>5, <3>1, <3>2, ProcessMoves
  <2> QED BY <1>3, <2>2, <2>3, <2>4, <2>5 DEF ReadConf
<1>4. CASE FindCurrency(p)
  <2> DEFINE r == [q EXCEPT !.pc = IF q.conf.currency \in disk.currencies THEN "execute" ELSE "make currency"]
  <2>1. proc' = [proc EXCEPT ![p] = r] /\ UNCHANGED <<disk, user, drawn>>
    BY <1>4 DEF FindCurrency, Goes
  <2>2. ProcOK(r) /\ (user.alone => ProcAgrees(r, disk, user.asked))
    BY <1>4, <1>m DEF FindCurrency, ProcOK, ProcAgrees
  <2> HIDE DEF r
  <2> QED BY <1>m, <2>1, <2>2, ProcessMoves
<1>5. CASE MakeCurrency(p)
  <2> DEFINE makes == disk.profile /\ q.conf.currency \notin disk.currencies
             r == [q EXCEPT !.pc = IF makes THEN "execute" ELSE "failed"]
  <2>1. /\ proc' = [proc EXCEPT ![p] = r] /\ UNCHANGED <<user, drawn>>
        /\ disk' = IF makes THEN [disk EXCEPT !.currencies = @ \cup {q.conf.currency}] ELSE disk
    BY <1>5 DEF MakeCurrency, Goes
  <2>2. FilesOK(disk') /\ disk'.conf = disk.conf
    BY <1>m, <2>1 DEF FilesOK, ProcOK, SoundConf, Conf
  <2>3. ProcOK(r) /\ (user.alone => ProcAgrees(r, disk', user.asked))
    BY <1>5, <1>m DEF MakeCurrency, ProcOK, ProcAgrees
  <2> HIDE DEF r
  <2> QED BY <1>m, <2>1, <2>2, <2>3, ProcessMoves DEF FileAgrees
<1> QED BY <1>1, <1>2, <1>3, <1>4, <1>5 DEF Load

\* A file that is created or written is a file; what the user asked for by the
\* command is asked for when its file is whole.
LEMMA WriteKeeps == ASSUME IInv, NEW p \in Proc, Write(p) PROVE IInv'
<1> DEFINE q == proc[p]
<1>0. proc[p].pc \notin Ended
  BY DEF Write, CreateFile, WriteFile, Ended
<1>m. /\ FilesOK(disk) /\ UserOK(user) /\ drawn \in Nat /\ ProcOK(q)
      /\ user.alone => /\ \A o \in Proc : o # p => proc[o].pc \in Ended
                       /\ FileAgrees(disk, user.asked) /\ ProcAgrees(q, disk, user.asked)
  BY <1>0, Moving
<1>f. q.file \in {"conf", "keys"} /\ q.file \in DOMAIN disk
  BY <1>m DEF ProcOK, FilesOK
<1>1. CASE CreateFile(p)
  <2> DEFINE r == [q EXCEPT !.pc = IF disk.profile THEN "write" ELSE "failed"]
  <2>1. /\ proc' = [proc EXCEPT ![p] = r] /\ UNCHANGED <<user, drawn>>
        /\ disk' = IF disk.profile THEN [disk EXCEPT ![q.file] = Created] ELSE disk
    BY <1>1 DEF CreateFile, Goes
  <2>2. disk.profile => disk'[q.file] = Created
    BY <1>f, <2>1
  <2>3. FilesOK(disk') /\ (user.alone => FileAgrees(disk', user.asked))
    <3>1. CASE q.file = "conf"
      BY <1>m, <2>1, <3>1 DEF FilesOK, FileAgrees, Created, Absent
    <3>2. CASE q.file = "keys"
      BY <1>m, <2>1, <3>2 DEF FilesOK, FileAgrees, Created, Absent
    <3> QED BY <1>f, <3>1, <3>2
  <2>4. ProcOK(r) /\ (user.alone => ProcAgrees(r, disk', user.asked))
    BY <1>1, <1>m, <2>2 DEF CreateFile, ProcOK, ProcAgrees
  <2> HIDE DEF r
  <2> QED BY <1>m, <2>1, <2>3, <2>4, ProcessMoves
<1>2. CASE WriteFile(p)
  <2> DEFINE r == [q EXCEPT !.pc = q.then]
             told == q.file = "conf" /\ q.then = "done"
             asked == IF told THEN Asked(user.asked, q.command) ELSE user.asked
  <2>1. /\ q.pc = "write" /\ proc' = [proc EXCEPT ![p] = r] /\ UNCHANGED drawn
        /\ user' = IF told THEN [user EXCEPT !.asked = asked] ELSE user
    BY <1>2 DEF WriteFile, Goes
  <2>2. PICK result : /\ disk' = [disk EXCEPT ![q.file] = result]
                      /\ \/ result = Absent /\ disk[q.file] = Absent
                         \/ result = Mixed /\ disk[q.file] \notin {Absent, Created}
                         \/ result = Holds(q.content) /\ disk[q.file] # Absent
    BY <1>2 DEF WriteFile
  <2>3. FilesOK(disk') /\ disk'[q.file] = result
    <3>1. CASE q.file = "conf"
      BY <1>m, <2>1, <2>2, <3>1 DEF FilesOK, ProcOK, Created, Absent, Mixed, Holds
    <3>2. CASE q.file = "keys"
      BY <1>m, <2>1, <2>2, <3>2 DEF FilesOK, Created, Absent, Mixed, Holds
    <3> QED BY <1>f, <3>1, <3>2
  <2>4. asked \in Asks
    <3>1. user.asked \in Asks
      BY <1>m DEF UserOK
    <3> QED BY <1>m, <3>1, AskedType DEF ProcOK
  <2>5. UserOK(user') /\ user'.alone = user.alone /\ user'.asked = asked
    BY <1>m, <2>1, <2>4 DEF UserOK
  <2>6. ProcOK(r)
    BY <1>m, <2>1 DEF ProcOK
  <2>7. ASSUME user.alone PROVE FileAgrees(disk', asked) /\ ProcAgrees(r, disk', asked)
    <3>1. disk[q.file] = Created /\ FileAgrees(disk, user.asked)
      BY <1>m, <2>1, <2>7 DEF ProcAgrees
    <3>2. disk'[q.file] = Holds(q.content)
      BY <2>2, <2>3, <3>1 DEF Created, Absent
    <3>3. CASE q.file = "keys"
      <4>1. disk'.conf = disk.conf /\ asked = user.asked
        BY <1>m, <2>2, <3>3 DEF FilesOK
      <4>2. q.then \in {"read conf", "done"}
        BY <1>m, <2>1, <2>7, <3>3 DEF ProcAgrees
      <4> QED BY <1>m, <3>1, <4>1, <4>2 DEF FileAgrees, ProcAgrees, ProcOK
    <3>4. CASE q.file = "conf"
      <4>1. /\ q.content = q.conf /\ Agree(q.conf, asked)
            /\ q.then \in {"find currency", "done"}
        BY <1>m, <2>1, <2>7, <3>4 DEF ProcAgrees, ProcOK
      <4>2. FileAgrees(disk', asked)
        <5>1. disk'.conf = Holds(q.conf)
          BY <3>2, <3>4, <4>1
        <5>2. Holds(q.conf).file = "whole" /\ Holds(q.conf).content = q.conf /\ Absent.file = "absent"
          BY DEF Holds, Absent
        <5> HIDE DEF asked
        <5> QED BY <4>1, <5>1, <5>2 DEF FileAgrees
      <4> QED BY <1>m, <4>1, <4>2 DEF ProcAgrees, ProcOK
    <3> QED BY <1>f, <3>3, <3>4
  <2> HIDE DEF r, asked
  <2> QED BY <1>m, <2>1, <2>3, <2>5, <2>6, <2>7, ProcessMoves
<1> QED BY <1>1, <1>2 DEF Write

\* A command.
LEMMA ExecuteKeeps == ASSUME IInv, NEW p \in Proc, Execute(p) PROVE IInv'
<1> DEFINE q == proc[p]
<1>0. q.pc = "execute"
  BY DEF Execute, ExecuteConfCommand, ExecuteKeysCommand, ExecuteShow, ExecuteReset, ExecuteStart, Executes
<1>m. /\ FilesOK(disk) /\ UserOK(user) /\ drawn \in Nat /\ ProcOK(q)
      /\ user.alone => /\ \A o \in Proc : o # p => proc[o].pc \in Ended
                       /\ FileAgrees(disk, user.asked) /\ ProcAgrees(q, disk, user.asked)
  BY <1>0, Moving DEF Ended
<1>1. CASE ExecuteConfCommand(p)
  <2> DEFINE conf == NewConf(q.conf, q.command)
             r == Writing(q, "conf", conf, "done")
  <2>1. Writes(p, "conf", conf, "done") /\ UNCHANGED <<disk, user, drawn>>
    BY <1>1 DEF ExecuteConfCommand
  <2>2. proc' = [proc EXCEPT ![p] = r]
    BY <1>0, <2>1, WritesMoves DEF Ended
  <2>3. q.command \in Commands /\ q.command.op \in WritesConf
    BY <1>1, <1>m DEF ExecuteConfCommand, Executes, ProcOK, WritesConf
  <2>4. conf \in SoundConf /\ (user.alone => Agree(conf, Asked(user.asked, q.command)))
    BY <1>0, <1>m, <2>3, CommandFollows DEF ProcOK, ProcAgrees, UserOK
  <2> HIDE DEF conf
  <2>5. ProcOK(r) /\ (user.alone => ProcAgrees(r, disk, user.asked))
    BY <1>m, <2>4 DEF ProcOK, ProcAgrees, Writing
  <2> HIDE DEF r
  <2> QED BY <1>m, <2>1, <2>2, <2>5, ProcessMoves
<1>2. CASE ExecuteKeysCommand(p)
  <2> DEFINE keys == NewKeys(q.keys, q.command, drawn)
             r == Writing(q, "keys", keys, "done")
  <2>1. Writes(p, "keys", keys, "done") /\ drawn' = drawn + 1 /\ UNCHANGED <<disk, user>>
    BY <1>2 DEF ExecuteKeysCommand
  <2> HIDE DEF keys
  <2>2. proc' = [proc EXCEPT ![p] = r]
    BY <1>0, <2>1, WritesMoves DEF Ended
  <2>3. ProcOK(r) /\ ProcAgrees(r, disk, user.asked)
    BY <1>m DEF ProcOK, ProcAgrees, Writing
  <2>4. drawn' \in Nat
    BY <1>m, <2>1
  <2> HIDE DEF r
  <2> QED BY <1>m, <2>1, <2>2, <2>3, <2>4, ProcessMoves
<1>3. CASE ExecuteShow(p)
  <2> DEFINE listed == IF q.command.op = "modules" THEN Listed(q.conf, q.command.filters) ELSE q.listed
             r == [q EXCEPT !.pc = "done", !.listed = listed]
  <2>1. proc' = [proc EXCEPT ![p] = r] /\ UNCHANGED <<disk, user, drawn>>
    BY <1>3 DEF ExecuteShow
  <2> HIDE DEF listed
  <2>2. ProcOK(r) /\ ProcAgrees(r, disk, user.asked)
    BY <1>m DEF ProcOK, ProcAgrees
  <2> HIDE DEF r
  <2> QED BY <1>m, <2>1, <2>2, ProcessMoves
<1>4. CASE ExecuteReset(p)
  <2>1. PICK pc \in {"done", "failed"} : proc' = [proc EXCEPT ![p].pc = pc]
    BY <1>4 DEF ExecuteReset, Goes
  <2> DEFINE r == [q EXCEPT !.pc = pc]
  <2>2. proc' = [proc EXCEPT ![p] = r] /\ UNCHANGED drawn
    BY <1>4, <2>1 DEF ExecuteReset
  <2>3. ProcOK(r) /\ \A d, asked : ProcAgrees(r, d, asked)
    BY <1>m DEF ProcOK, ProcAgrees
  <2>4. /\ FilesOK(disk') /\ UserOK(user') /\ user'.alone = user.alone
        /\ user.alone => FileAgrees(disk', user'.asked)
    <3>1. CASE disk' = [disk EXCEPT !.currencies = @ \ {"g1"}] /\ UNCHANGED user
      BY <1>m, <3>1 DEF FilesOK, FileAgrees
    <3>2. NothingAsked \in Asks
      BY DefaultAgrees
    <3>3. CASE disk' = [disk EXCEPT !.conf = Absent] /\ user' = [user EXCEPT !.asked = NothingAsked]
      BY <1>m, <3>2, <3>3 DEF FilesOK, FileAgrees, UserOK, Absent
    <3>4. CASE /\ disk' = [profile |-> FALSE, conf |-> Absent, keys |-> Absent, currencies |-> {}]
               /\ user' = [user EXCEPT !.asked = NothingAsked]
      BY <1>m, <3>2, <3>4 DEF FilesOK, FileAgrees, UserOK, Absent
    <3> QED BY <1>4, <3>1, <3>3, <3>4 DEF ExecuteReset
  <2> HIDE DEF r
  <2> QED BY <1>m, <2>2, <2>3, <2>4, ProcessMoves
<1>5. CASE ExecuteStart(p)
  <2> DEFINE r == [q EXCEPT !.pc = "serve", !.modules = Plugged(q.conf), !.ws2p1 = ws2p1_conf(q.conf)]
  <2>1. proc' = [proc EXCEPT ![p] = r] /\ UNCHANGED <<disk, user, drawn>>
    BY <1>5 DEF ExecuteStart
  <2>2. ProcOK(r) /\ (user.alone => ProcAgrees(r, disk, user.asked))
    BY <1>0, <1>m DEF ProcOK, ProcAgrees
  <2> HIDE DEF r
  <2> QED BY <1>m, <2>1, <2>2, ProcessMoves
<1> QED BY <1>1, <1>2, <1>3, <1>4, <1>5 DEF Execute

\* The end of a process, wherever it is.
LEMMA EndKeeps == ASSUME IInv, NEW p \in Proc, Stop(p) \/ Kill(p) PROVE IInv'
<1> DEFINE q == proc[p]
<1>0. proc[p].pc \notin Ended
  BY DEF Stop, Kill, Ended
<1>m. /\ FilesOK(disk) /\ UserOK(user) /\ drawn \in Nat /\ ProcOK(q)
      /\ user.alone => /\ \A o \in Proc : o # p => proc[o].pc \in Ended
                       /\ FileAgrees(disk, user.asked) /\ ProcAgrees(q, disk, user.asked)
  BY <1>0, Moving
<1>1. PICK pc \in {"done", "killed"} : proc' = [proc EXCEPT ![p].pc = pc]
  BY DEF Stop, Kill, Goes
<1> DEFINE r == [q EXCEPT !.pc = pc]
<1>2. proc' = [proc EXCEPT ![p] = r] /\ UNCHANGED <<disk, drawn>>
  BY <1>1 DEF Stop, Kill
<1>3. UserOK(user') /\ user'.alone = user.alone /\ user'.asked = user.asked
  BY <1>m DEF Stop, Kill, UserOK
<1>4. ProcOK(r) /\ ProcAgrees(r, disk, user.asked)
  BY <1>m DEF ProcOK, ProcAgrees
<1> HIDE DEF r
<1> QED BY <1>m, <1>2, <1>3, <1>4, ProcessMoves

-----------------------------------------------------------------------------
(* The theorems.                                                           *)

\* The scenarios start in the invariant.
LEMMA InitHolds == Init => IInv
<1> SUFFICES ASSUME Init PROVE IInv
  OBVIOUS
<1>1. user \in Scenarios /\ disk = user.disk /\ drawn = 1
  BY DEF Init
<1>2. FilesOK(disk) /\ UserOK(user) /\ (user.alone => FileAgrees(disk, user.asked))
  <2>1. \A file \in {"conf", "keys"} : disk[file].file \in {"absent", "created", "whole", "mixed"}
    <3>1. ASSUME NEW file \in {"conf", "keys"}
          PROVE  disk[file] \in {Absent, Created, Mixed} \/ disk[file] = Holds(disk[file].content)
      BY <1>1, <3>1, ScenariosAssumption
    <3>2. Absent.file = "absent" /\ Created.file = "created" /\ Mixed.file = "mixed"
      BY DEF Absent, Created, Mixed
    <3>3. ASSUME NEW what PROVE Holds(what).file = "whole"
      BY DEF Holds
    <3> QED BY <3>1, <3>2, <3>3
  <2> QED BY <1>1, <2>1, ScenariosAssumption DEF FilesOK, UserOK, FileAgrees, SoundConf
<1>3. ASSUME NEW p \in Proc
      PROVE  proc[p].pc = "off" /\ ProcOK(proc[p]) /\ ProcAgrees(proc[p], disk, user.asked)
  <2>1. DefaultConf(0) \in SoundConf
    BY SoundDefault
  <2> QED BY <2>1 DEF Init, ProcOK, ProcAgrees
<1>4. DOMAIN proc = Proc
  BY DEF Init
<1> QED BY <1>1, <1>2, <1>3, <1>4 DEF IInv, Typed, OneAtATime, Ended

LEMMA StepKeeps == IInv /\ [Next]_vars => IInv'
<1>1. ASSUME IInv, Next PROVE IInv'
  BY <1>1, LaunchKeeps, LoadKeeps, WriteKeeps, ExecuteKeeps, EndKeeps DEF Next
<1>2. ASSUME IInv, UNCHANGED vars PROVE IInv'
  BY <1>2 DEF vars, IInv, Typed, OneAtATime
<1> QED BY <1>1, <1>2

\* The server runs what the user asked for.
LEMMA ServerObeys ==
    ASSUME IInv, NEW p \in Proc, proc[p].pc = "serve", user.alone
    PROVE  /\ \A m \in Module : m \in proc[p].modules <=>
                 Priority[m] = "Essential" \/ user.asked.switch[m] = "enabled"
                 \/ (Priority[m] = "Recommended" /\ user.asked.switch[m] # "disabled")
           /\ proc[p].ws2p1.prefered_pubkeys = user.asked.prefered
<1>1. /\ proc[p].modules = Plugged(proc[p].conf) /\ proc[p].ws2p1 = ws2p1_conf(proc[p].conf)
      /\ Agree(proc[p].conf, user.asked)
  BY DEF IInv, ProcAgrees
<1>2. proc[p].ws2p1.prefered_pubkeys = user.asked.prefered
  BY <1>1 DEF ws2p1_conf, Agree
<1>3. ASSUME NEW m \in Module
      PROVE  m \in proc[p].modules <=>
                 Priority[m] = "Essential" \/ user.asked.switch[m] = "enabled"
                 \/ (Priority[m] = "Recommended" /\ user.asked.switch[m] # "disabled")
  <2>1. m \in proc[p].modules <=> enabled(proc[p].conf, m)
    BY <1>1 DEF Plugged
  <2>2. Priority[m] \in {"Essential", "Recommended", "Optional"}
    BY NamesAssumption
  <2>3. /\ m \in proc[p].conf.disabled <=> user.asked.switch[m] = "disabled"
        /\ m \in proc[p].conf.enabled <=> user.asked.switch[m] = "enabled"
    BY <1>1 DEF Agree
  <2> QED BY <2>1, <2>2, <2>3 DEF enabled
<1> QED BY <1>2, <1>3

\* Types, with the lists of modules disjoint, and a server that obeys.
LEMMA InvariantSuffices == IInv => ProfileObeysUser
<1> SUFFICES ASSUME IInv PROVE ProfileObeysUser
  OBVIOUS
<1>1. TypeOK
  <2>1. \A conf \in SoundConf : /\ conf.version \in {1, 2} /\ conf.currency \in Currency
                                /\ conf.enabled \subseteq Module /\ conf.disabled \subseteq Module
                                /\ conf.enabled \cap conf.disabled = {}
                                /\ DOMAIN conf.modules \subseteq Module
    BY DEF SoundConf, Conf
  <2>2. {proc[p].conf : p \in Proc} \cup (IF Whole("conf") THEN {disk.conf.content} ELSE {}) \subseteq SoundConf
    BY DEF IInv, Typed, ProcOK, FilesOK, Whole
  <2>3. FilesOK(disk)
    BY DEF IInv, Typed
  <2> QED BY <2>1, <2>2, <2>3 DEF TypeOK, FilesOK
<1>2. ServerObeysUser
  BY ServerObeys DEF ServerObeysUser
<1> QED BY <1>1, <1>2 DEF ProfileObeysUser

\* For any modules, commands, scenarios and processes, those killed included: the
\* server starts with the modules and the preferred keys that the commands before
\* it have asked for, and the lists of modules stay disjoint in every file.
THEOREM ProfileObeys == Spec => []ProfileObeysUser
BY InitHolds, StepKeeps, InvariantSuffices, PTL DEF Spec

-----------------------------------------------------------------------------
(* Commands are atomic as long as no two processes claim the same file.     *)

\* A process claims the file that it is writing, or that its command will write.
Claims(q, file) ==
    \/ q.pc \in {"create", "write"} /\ q.file = file
    \/ q.command.op \in IF file = "conf" THEN WritesConf \cup {"reset conf", "reset all"}
                                         ELSE WritesKeys \cup {"reset all"}

Separate(P) ==
    \A p, q \in Proc, file \in {"conf", "keys"} :
        p # q /\ Claims(P[p], file) /\ Claims(P[q], file) => P[p].pc \in Ended \/ P[q].pc \in Ended

SeparateFiles == Separate(proc)

IsKeys(keys) == DOMAIN keys = {"network", "member"}
Filled(d, file) == d[file] = Holds(d[file].content)

FilesWhole(d) ==
    /\ \A file \in {"conf", "keys"} : d[file] \in {Absent, Created, Mixed} \/ Filled(d, file)
    /\ d.keys.file = "whole" => IsKeys(d.keys.content)

\* What a process is about to write is made of what the file holds.
WillWrite(q, d) ==
    \/ /\ q.file = "conf"
       /\ \/ d.conf = Absent /\ \E r \in 0 .. MaxDraws : q.content = DefaultConf(r)
          \/ Filled(d, "conf") /\ q.content = upgrade(d.conf.content)
          \/ /\ Filled(d, "conf") /\ q.command \in CommandsOf(WritesConf)
             /\ q.content = NewConf(d.conf.content, q.command)
    \/ /\ q.file = "keys"
       /\ \/ d.keys = Absent /\ \E r \in 0 .. MaxDraws : q.content = FirstKeys(r)
          \/ /\ Filled(d, "keys") /\ q.command \in CommandsOf(WritesKeys)
             /\ \E r \in 0 .. MaxDraws : q.content = NewKeys(d.keys.content, q.command, r)

\* What a process knows of the files it claims: what it has read of them is there
\* until it writes.
Knows(q, d) ==
    /\ q.pc = "create" => WillWrite(q, d)
    /\ q.pc = "write" => d[q.file] = Created
    /\ q.pc \in {"create", "write"} =>
          \/ q.file = "conf" /\ q.then \in {"find currency", "done"}
          \/ /\ q.file = "keys" /\ q.then \in {"read conf", "done"}
             /\ q.content = q.keys /\ IsKeys(q.keys)
    /\ q.command.op \in WritesConf /\ q.pc \in {"find currency", "make currency", "execute"} =>
          d.conf = Holds(q.conf)
    /\ /\ q.command.op \in WritesKeys
       /\ \/ q.pc \in {"read conf", "find currency", "make currency", "execute"}
          \/ q.pc \in {"create", "write"} /\ q.file = "conf"
       => d.keys = Holds(q.keys)

AtomicInv == FilesWhole(disk) /\ \A p \in Proc : Knows(proc[p], disk)

\* Seen, of any state.
WritersIn(P, file) == {p \in Proc : P[p].pc = "write" /\ P[p].file = file}
SeenIn(d, P, file) ==
    CASE d[file] = Absent -> Absent
      [] d[file].file = "whole" -> d[file].content
      [] d[file] = Created /\ WritersIn(P, file) # {} -> P[CHOOSE p \in WritersIn(P, file) : TRUE].content
      [] OTHER -> Created

\* A step of the store, or none.
Refines ==
    \/ Store!Next
    \/ UNCHANGED <<Seen("conf"), Seen("keys")>>

\* The files are told apart by what they say they are.
LEMMA FileValues ==
    /\ Absent.file = "absent" /\ Created.file = "created" /\ Mixed.file = "mixed"
    /\ \A x : Holds(x).file = "whole" /\ Holds(x).content = x
BY DEF Absent, Created, Mixed, Holds

\* What a file holds is not taken for its absence.
LEMMA ContentsThere ==
    /\ \A x \in SoundConf : x \notin {Absent, Created}
    /\ \A x : IsKeys(x) => x \notin {Absent, Created}
<1>1. DOMAIN Absent = {"file"} /\ DOMAIN Created = {"file"}
  BY DEF Absent, Created
<1>2. \A x \in SoundConf : "version" \in DOMAIN x
  BY DEF SoundConf, Conf
<1>3. \A x : IsKeys(x) => "network" \in DOMAIN x
  BY DEF IsKeys
<1> QED BY <1>1, <1>2, <1>3

\* What is seen of a file, by what is in it and who writes it.
LEMMA SeenFile ==
    ASSUME NEW d, NEW P, NEW file
    PROVE  /\ d[file] = Absent => SeenIn(d, P, file) = Absent
           /\ \A x : d[file] = Holds(x) => SeenIn(d, P, file) = x
           /\ d[file] = Created /\ WritersIn(P, file) = {} => SeenIn(d, P, file) = Created
           /\ \A p : d[file] = Created /\ WritersIn(P, file) = {p} =>
                 SeenIn(d, P, file) = P[p].content
<1>1. d[file] = Absent => SeenIn(d, P, file) = Absent
  BY FileValues DEF SeenIn
<1>2. ASSUME NEW x, d[file] = Holds(x) PROVE SeenIn(d, P, file) = x
  BY <1>2, FileValues DEF SeenIn
<1>3. d[file] = Created /\ WritersIn(P, file) = {} => SeenIn(d, P, file) = Created
  BY FileValues DEF SeenIn
<1>4. ASSUME NEW p, d[file] = Created, WritersIn(P, file) = {p} PROVE SeenIn(d, P, file) = P[p].content
  <2>1. (CHOOSE q \in WritersIn(P, file) : TRUE) = p
    BY <1>4
  <2>2. d[file] # Absent /\ d[file].file # "whole" /\ WritersIn(P, file) # {}
    BY <1>4, FileValues
  <2> QED BY <1>4, <2>1, <2>2 DEF SeenIn
<1> QED BY <1>1, <1>2, <1>3, <1>4

\* A file that does not change looks the same when the process that moves neither
\* was nor is writing it.
LEMMA SeenStays ==
    ASSUME Typed, NEW p \in Proc, NEW r, proc' = [proc EXCEPT ![p] = r],
           NEW file \in {"conf", "keys"}, disk'[file] = disk[file],
           proc[p].pc # "write" \/ proc[p].file # file, r.pc # "write" \/ r.file # file
    PROVE  SeenIn(disk', proc', file) = SeenIn(disk, proc, file)
<1>1. proc'[p] = r /\ \A q \in Proc : q # p => proc'[q] = proc[q]
  BY DEF Typed
<1>2. WritersIn(proc', file) = WritersIn(proc, file) /\ p \notin WritersIn(proc, file)
  BY <1>1 DEF WritersIn
<1>3. \A q \in WritersIn(proc, file) : proc'[q] = proc[q]
  BY <1>1, <1>2 DEF WritersIn
<1>4. WritersIn(proc, file) # {} =>
        (CHOOSE q \in WritersIn(proc, file) : TRUE) \in WritersIn(proc, file)
  OBVIOUS
<1> QED BY <1>2, <1>3, <1>4 DEF SeenIn

\* Nobody else writes a file that a process is writing.
LEMMA OneWriter ==
    ASSUME NEW P, Separate(P), NEW p \in Proc, P[p].pc = "write",
           NEW file \in {"conf", "keys"}, P[p].file = file
    PROVE  WritersIn(P, file) = {p}
BY DEF Separate, Claims, WritersIn, Ended

\* A process knows the same of the files it claims when they stay, or when it has ended.
LEMMA OthersKnow ==
    ASSUME NEW q, ProcOK(q), NEW d, NEW e, Knows(q, d),
           q.pc \in Ended \/ \A file \in {"conf", "keys"} : Claims(q, file) => e[file] = d[file]
    PROVE  Knows(q, e)
<1>1. CASE q.pc \in Ended
  BY <1>1 DEF Knows, Ended
<1>2. CASE \A file \in {"conf", "keys"} : Claims(q, file) => e[file] = d[file]
  <2>1. q.pc \in {"create", "write"} => e[q.file] = d[q.file]
    BY <1>2 DEF Claims, ProcOK
  <2>2. q.pc = "create" => WillWrite(q, e)
    BY <2>1 DEF Knows, WillWrite, Filled
  <2>3. q.command.op \in WritesConf => e.conf = d.conf
    BY <1>2 DEF Claims
  <2>4. q.command.op \in WritesKeys => e.keys = d.keys
    BY <1>2 DEF Claims
  <2> QED BY <2>1, <2>2, <2>3, <2>4 DEF Knows
<1> QED BY <1>1, <1>2

\* A step of one process: it changes only the files it claims.
LEMMA AtomicMoves ==
    ASSUME Typed, AtomicInv, Separate(proc), NEW p \in Proc, NEW r, proc' = [proc EXCEPT ![p] = r],
           FilesWhole(disk'), Knows(r, disk'),
           \A file \in {"conf", "keys"} :
              disk'[file] = disk[file] \/ (Claims(proc[p], file) /\ proc[p].pc \notin Ended)
    PROVE  AtomicInv'
<1>1. proc'[p] = r /\ \A q \in Proc : q # p => proc'[q] = proc[q]
  BY DEF Typed
<1>2. ASSUME NEW q \in Proc, q # p PROVE Knows(proc[q], disk')
  <2>1. ProcOK(proc[q]) /\ Knows(proc[q], disk)
    BY DEF Typed, AtomicInv
  <2>2. proc[q].pc \in Ended \/ \A file \in {"conf", "keys"} : Claims(proc[q], file) => disk'[file] = disk[file]
    BY <1>2 DEF Separate
  <2> QED BY <2>1, <2>2, OthersKnow
<1> QED BY <1>1, <1>2 DEF AtomicInv

\* Seen is what is seen now.
LEMMA SeenNow ==
    /\ Seen("conf") = SeenIn(disk, proc, "conf") /\ Seen("keys") = SeenIn(disk, proc, "keys")
    /\ Seen("conf")' = SeenIn(disk', proc', "conf") /\ Seen("keys")' = SeenIn(disk', proc', "keys")
BY DEF Seen, SeenIn, Whole, Writers, WritersIn

\* A step that changes no file, of a process that neither was nor is writing.
LEMMA QuietMoves ==
    ASSUME Typed, AtomicInv, Separate(proc), NEW p \in Proc, NEW r, proc' = [proc EXCEPT ![p] = r],
           disk'.conf = disk.conf, disk'.keys = disk.keys, Knows(r, disk),
           proc[p].pc # "write", r.pc # "write"
    PROVE  AtomicInv' /\ Refines
<1>1. FilesWhole(disk') /\ Knows(r, disk')
  <2>1. PICK D, E : D = disk /\ E = disk'
    OBVIOUS
  <2>2. E.conf = D.conf /\ E.keys = D.keys /\ Knows(r, D) /\ FilesWhole(D)
    BY <2>1 DEF AtomicInv
  <2>3. WillWrite(r, D) => WillWrite(r, E)
    BY <2>2 DEF WillWrite, Filled
  <2>4. FilesWhole(E)
    BY <2>2 DEF FilesWhole, Filled
  <2>5. Knows(r, E)
    <3>1. r.pc \in {"create", "write"} => r.file \in {"conf", "keys"}
      BY <2>2 DEF Knows
    <3> QED BY <2>2, <2>3, <3>1 DEF Knows
  <2> QED BY <2>1, <2>4, <2>5
<1>2. \A file \in {"conf", "keys"} : disk'[file] = disk[file]
  OBVIOUS
<1>3. AtomicInv'
  BY <1>1, <1>2, AtomicMoves
<1>4. \A file \in {"conf", "keys"} : SeenIn(disk', proc', file) = SeenIn(disk, proc, file)
  BY <1>2, SeenStays
<1> QED BY <1>3, <1>4, SeenNow DEF Refines

\* The state before a step: what was proved of it, and the files apart.
Undisturbed == IInv /\ AtomicInv /\ SeparateFiles /\ drawn \in 0 .. MaxDraws

\* What holds of the process that moves.
LEMMA Undisturbing ==
    ASSUME Undisturbed, NEW p \in Proc
    PROVE  /\ Typed /\ AtomicInv /\ Separate(proc) /\ drawn \in 0 .. MaxDraws
           /\ FilesOK(disk) /\ FilesWhole(disk) /\ ProcOK(proc[p]) /\ Knows(proc[p], disk)
BY DEF Undisturbed, IInv, Typed, AtomicInv, SeparateFiles

\* A file that is whole holds its content.
LEMMA WholeFilled ==
    ASSUME NEW d, FilesWhole(d), NEW file \in {"conf", "keys"}, d[file].file = "whole"
    PROVE  Filled(d, file)
BY FileValues DEF FilesWhole

\* Going on without having read or written knows as much as before.
LEMMA LaunchAtomic == ASSUME Undisturbed, NEW p \in Proc, Launch(p) PROVE AtomicInv' /\ Refines
<1> DEFINE r == [proc[p] EXCEPT !.pc = IF disk.profile THEN "read keys" ELSE "make profile",
                                !.command = Head(user.commands[p])]
<1>1. proc' = [proc EXCEPT ![p] = r] /\ disk' = disk /\ proc[p].pc \in Ended
  BY DEF Launch
<1>2. r.pc \in {"read keys", "make profile"} /\ r.command = Head(user.commands[p]) /\ r.keys = proc[p].keys
  BY Undisturbing DEF ProcOK
<1> HIDE DEF r
<1>3. Knows(r, disk)
  BY <1>2 DEF Knows
<1> QED BY <1>1, <1>2, <1>3, Undisturbing, QuietMoves DEF Ended

\* A process that has ended, or has still to read the files, knows nothing.
LEMMA NothingKnown ==
    ASSUME NEW q, NEW d, q.pc \in Ended \cup {"make profile", "read keys", "serve"}
    PROVE  Knows(q, d)
BY DEF Knows, Ended

\* So it is for the steps that go on to such a point and change no file.
LEMMA GoesQuiet ==
    ASSUME Undisturbed, NEW p \in Proc, NEW pc, Goes(p, pc), proc[p].pc # "write",
           \/ pc \in Ended \cup {"make profile", "read keys", "serve"}
           \/ /\ proc[p].pc \in {"find currency", "make currency", "execute"}
              /\ pc \in {"make currency", "execute"},
           disk'.conf = disk.conf, disk'.keys = disk.keys
    PROVE  AtomicInv' /\ Refines
<1> DEFINE r == [proc[p] EXCEPT !.pc = pc]
<1>1. proc' = [proc EXCEPT ![p] = r]
  BY DEF Goes
<1>2. /\ r.pc = pc /\ r.command = proc[p].command /\ r.keys = proc[p].keys /\ r.conf = proc[p].conf
      /\ pc # "write"
  BY Undisturbing DEF ProcOK, Ended
<1> HIDE DEF r
<1>3. Knows(r, disk)
  <2>1. CASE pc \in Ended \cup {"make profile", "read keys", "serve"}
    BY <1>2, <2>1, NothingKnown
  <2>2. CASE /\ proc[p].pc \in {"find currency", "make currency", "execute"}
             /\ pc \in {"make currency", "execute"}
    BY <1>2, <2>2, Undisturbing DEF Knows
  <2> QED BY <2>1, <2>2
<1> QED BY <1>1, <1>2, <1>3, Undisturbing, QuietMoves

\* The directories are not the files.
LEMMA DirectoriesAtomic ==
    ASSUME Undisturbed, NEW p \in Proc, MakeProfile(p) \/ FindCurrency(p) \/ MakeCurrency(p)
    PROVE  AtomicInv' /\ Refines
<1>1. DOMAIN disk = {"profile", "conf", "keys", "currencies"}
  BY Undisturbing DEF FilesOK
<1>2. CASE MakeProfile(p)
  <2>1. disk'.conf = disk.conf /\ disk'.keys = disk.keys /\ proc[p].pc # "write"
    BY <1>1, <1>2 DEF MakeProfile
  <2>2. PICK pc : Goes(p, pc) /\ pc \in {"failed", "read keys"}
    BY <1>2 DEF MakeProfile
  <2> QED BY <2>1, <2>2, GoesQuiet DEF Ended
<1>3. CASE FindCurrency(p)
  <2>1. disk'.conf = disk.conf /\ disk'.keys = disk.keys /\ proc[p].pc = "find currency"
    BY <1>3 DEF FindCurrency
  <2>2. PICK pc : Goes(p, pc) /\ pc \in {"make currency", "execute"}
    BY <1>3 DEF FindCurrency
  <2> QED BY <2>1, <2>2, GoesQuiet
<1>4. CASE MakeCurrency(p)
  <2>1. disk'.conf = disk.conf /\ disk'.keys = disk.keys /\ proc[p].pc = "make currency"
    BY <1>1, <1>4 DEF MakeCurrency
  <2>2. PICK pc : Goes(p, pc) /\ pc \in {"execute", "failed"}
    BY <1>4 DEF MakeCurrency
  <2> QED BY <2>1, <2>2, GoesQuiet DEF Ended
<1> QED BY <1>2, <1>3, <1>4

\* A process that is about to write has read what it writes over.
LEMMA WritesQuiet ==
    ASSUME Undisturbed, NEW p \in Proc, proc[p].pc \notin Ended \cup {"write"},
           NEW file \in {"conf", "keys"}, NEW content, NEW then, Writes(p, file, content, then),
           WillWrite([command |-> proc[p].command, file |-> file, content |-> content], disk),
           \/ file = "conf" /\ then \in {"find currency", "done"}
           \/ file = "keys" /\ then \in {"read conf", "done"} /\ IsKeys(content),
           file = "conf" /\ proc[p].command.op \in WritesKeys => disk.keys = Holds(proc[p].keys),
           disk' = disk
    PROVE  AtomicInv' /\ Refines
<1> DEFINE r == Writing(proc[p], file, content, then)
<1>1. proc' = [proc EXCEPT ![p] = r]
  BY DEF Writes, Writing
<1>2. /\ r.pc = "create" /\ r.file = file /\ r.content = content /\ r.then = then
      /\ r.command = proc[p].command
      /\ r.keys = IF file = "keys" THEN content ELSE proc[p].keys
  BY Undisturbing DEF ProcOK, Writing
<1> HIDE DEF r
<1>3. WillWrite(r, disk)
  BY <1>2 DEF WillWrite
<1>4. Knows(r, disk)
  BY <1>2, <1>3 DEF Knows
<1> QED BY <1>1, <1>2, <1>4, Undisturbing, QuietMoves

\* The keys that were read are those of the file.
LEMMA ReadKeysAtomic == ASSUME Undisturbed, NEW p \in Proc, ReadKeys(p) PROVE AtomicInv' /\ Refines
<1>1. proc[p].pc = "read keys" /\ disk' = disk
  BY DEF ReadKeys
<1>2. CASE disk.keys = Absent /\ Writes(p, "keys", FirstKeys(drawn), "read conf")
  <2>1. IsKeys(FirstKeys(drawn))
    BY DEF IsKeys, FirstKeys
  <2>2. WillWrite([command |-> proc[p].command, file |-> "keys", content |-> FirstKeys(drawn)], disk)
    BY <1>2, Undisturbing DEF WillWrite
  <2> QED BY <1>1, <1>2, <2>1, <2>2, WritesQuiet DEF Ended
<1>3. CASE /\ disk.keys.file = "whole"
           /\ proc' = [proc EXCEPT ![p] = [@ EXCEPT !.pc = "read conf", !.keys = disk.keys.content]]
  <2> DEFINE r == [proc[p] EXCEPT !.pc = "read conf", !.keys = disk.keys.content]
  <2>1. proc' = [proc EXCEPT ![p] = r]
    BY <1>3
  <2>2. r.pc = "read conf" /\ r.keys = disk.keys.content
    BY Undisturbing DEF ProcOK
  <2>3. disk.keys = Holds(disk.keys.content)
    BY <1>3, Undisturbing, WholeFilled DEF Filled
  <2> HIDE DEF r
  <2>4. Knows(r, disk)
    BY <2>2, <2>3 DEF Knows
  <2> QED BY <1>1, <2>1, <2>2, <2>4, Undisturbing, QuietMoves
<1>4. CASE Goes(p, "failed")
  BY <1>1, <1>4, GoesQuiet DEF Ended
<1> QED BY <1>2, <1>3, <1>4 DEF ReadKeys

\* The configuration that was read is that of the file.
LEMMA ReadConfAtomic == ASSUME Undisturbed, NEW p \in Proc, ReadConf(p) PROVE AtomicInv' /\ Refines
<1>1. proc[p].pc = "read conf" /\ disk' = disk
  BY DEF ReadConf
<1>2. proc[p].command.op \in WritesKeys => disk.keys = Holds(proc[p].keys)
  BY <1>1, Undisturbing DEF Knows
<1>3. disk.conf.file = "whole" => Filled(disk, "conf") /\ disk.conf = Holds(disk.conf.content)
  BY Undisturbing, WholeFilled DEF Filled
<1>4. CASE disk.conf = Absent /\ Writes(p, "conf", DefaultConf(drawn), "find currency")
  <2>1. WillWrite([command |-> proc[p].command, file |-> "conf", content |-> DefaultConf(drawn)], disk)
    BY <1>4, Undisturbing DEF WillWrite
  <2> QED BY <1>1, <1>2, <1>4, <2>1, WritesQuiet DEF Ended
<1>5. CASE disk.conf.file = "whole" /\ Writes(p, "conf", upgrade(disk.conf.content), "find currency")
  <2>1. WillWrite([command |-> proc[p].command, file |-> "conf", content |-> upgrade(disk.conf.content)], disk)
    BY <1>3, <1>5 DEF WillWrite
  <2> QED BY <1>1, <1>2, <1>5, <2>1, WritesQuiet DEF Ended
<1>6. CASE /\ disk.conf.file = "whole"
           /\ proc' = [proc EXCEPT ![p] = [@ EXCEPT !.pc = "find currency", !.conf = disk.conf.content]]
  <2> DEFINE r == [proc[p] EXCEPT !.pc = "find currency", !.conf = disk.conf.content]
  <2>1. proc' = [proc EXCEPT ![p] = r]
    BY <1>6
  <2>2. /\ r.pc = "find currency" /\ r.conf = disk.conf.content
        /\ r.keys = proc[p].keys /\ r.command = proc[p].command
    BY Undisturbing DEF ProcOK
  <2> HIDE DEF r
  <2>3. Knows(r, disk)
    BY <1>2, <1>3, <1>6, <2>2 DEF Knows
  <2> QED BY <1>1, <2>1, <2>2, <2>3, Undisturbing, QuietMoves
<1>7. CASE Goes(p, "failed")
  BY <1>1, <1>7, GoesQuiet DEF Ended
<1> QED BY <1>4, <1>5, <1>6, <1>7 DEF ReadConf

\* A command makes what it writes of what the file holds.
LEMMA ExecuteConfAtomic == ASSUME Undisturbed, NEW p \in Proc, ExecuteConfCommand(p) PROVE AtomicInv' /\ Refines
<1> DEFINE content == NewConf(proc[p].conf, proc[p].command)
<1>1. /\ proc[p].pc = "execute" /\ proc[p].command.op \in WritesConf /\ disk' = disk
      /\ Writes(p, "conf", content, "done")
  BY DEF ExecuteConfCommand, Executes
<1>2. disk.conf = Holds(proc[p].conf)
  BY <1>1, Undisturbing DEF Knows
<1>3. proc[p].command \in CommandsOf(WritesConf) /\ proc[p].command.op \notin WritesKeys
  <2>1. proc[p].command \in Commands \cup {[op |-> "show"]} /\ [op |-> "show"].op = "show"
    BY Undisturbing DEF ProcOK
  <2>2. proc[p].command \in Commands
    BY <1>1, <2>1 DEF WritesConf
  <2> QED BY <1>1, <2>2 DEF CommandsOf, WritesConf, WritesKeys
<1>4. Filled(disk, "conf") /\ content = NewConf(disk.conf.content, proc[p].command)
  BY <1>2, FileValues DEF Filled
<1> HIDE DEF content
<1>5. WillWrite([command |-> proc[p].command, file |-> "conf", content |-> content], disk)
  BY <1>3, <1>4 DEF WillWrite
<1> QED BY <1>1, <1>3, <1>5, WritesQuiet DEF Ended

\* New keys are keys.
LEMMA NewKeysType ==
    ASSUME NEW keys, IsKeys(keys), NEW c, c.op \in WritesKeys, NEW random
    PROVE  IsKeys(NewKeys(keys, c, random))
BY DEF IsKeys, NewKeys, WritesKeys

\* So does a command that writes the keys.
LEMMA ExecuteKeysAtomic == ASSUME Undisturbed, NEW p \in Proc, ExecuteKeysCommand(p) PROVE AtomicInv' /\ Refines
<1> DEFINE content == NewKeys(proc[p].keys, proc[p].command, drawn)
<1>1. /\ proc[p].pc = "execute" /\ proc[p].command.op \in WritesKeys /\ disk' = disk
      /\ Writes(p, "keys", content, "done")
  BY DEF ExecuteKeysCommand, Executes
<1>2. disk.keys = Holds(proc[p].keys)
  BY <1>1, Undisturbing DEF Knows
<1>3. proc[p].command \in CommandsOf(WritesKeys)
  <2>1. proc[p].command \in Commands \cup {[op |-> "show"]} /\ [op |-> "show"].op = "show"
    BY Undisturbing DEF ProcOK
  <2>2. proc[p].command \in Commands
    BY <1>1, <2>1 DEF WritesKeys
  <2> QED BY <1>1, <2>2 DEF CommandsOf
<1>4. /\ Filled(disk, "keys") /\ content = NewKeys(disk.keys.content, proc[p].command, drawn)
      /\ IsKeys(proc[p].keys)
  BY <1>2, Undisturbing, FileValues DEF Filled, FilesWhole
<1>5. IsKeys(content)
  BY <1>1, <1>4, NewKeysType
<1> HIDE DEF content
<1>6. WillWrite([command |-> proc[p].command, file |-> "keys", content |-> content], disk)
  BY <1>3, <1>4, Undisturbing DEF WillWrite
<1> QED BY <1>1, <1>5, <1>6, WritesQuiet DEF Ended

\* What a process shows or serves is no matter of the files.
LEMMA ShowsAtomic ==
    ASSUME Undisturbed, NEW p \in Proc, ExecuteShow(p) \/ ExecuteStart(p) \/ Stop(p)
    PROVE  AtomicInv' /\ Refines
<1>1. PICK r : /\ proc' = [proc EXCEPT ![p] = r] /\ r.pc \in {"done", "serve"}
               /\ disk' = disk /\ proc[p].pc # "write"
  <2>1. CASE ExecuteShow(p)
    <3> DEFINE r == [proc[p] EXCEPT !.pc = "done",
            !.listed = IF proc[p].command.op = "modules" THEN Listed(proc[p].conf, proc[p].command.filters)
                       ELSE proc[p].listed]
    <3>1. proc' = [proc EXCEPT ![p] = r] /\ disk' = disk /\ proc[p].pc = "execute"
      BY <2>1 DEF ExecuteShow, Executes
    <3>2. r.pc = "done"
      BY Undisturbing DEF ProcOK
    <3> QED BY <3>1, <3>2
  <2>2. CASE ExecuteStart(p)
    <3> DEFINE r == [proc[p] EXCEPT !.pc = "serve", !.modules = Plugged(proc[p].conf),
                                    !.ws2p1 = ws2p1_conf(proc[p].conf)]
    <3>1. proc' = [proc EXCEPT ![p] = r] /\ disk' = disk /\ proc[p].pc = "execute"
      BY <2>2 DEF ExecuteStart, Executes
    <3>2. r.pc = "serve"
      BY Undisturbing DEF ProcOK
    <3> QED BY <3>1, <3>2
  <2>3. CASE Stop(p)
    <3> DEFINE r == [proc[p] EXCEPT !.pc = "done"]
    <3>1. proc' = [proc EXCEPT ![p] = r] /\ disk' = disk /\ proc[p].pc = "serve"
      BY <2>3 DEF Stop, Goes
    <3>2. r.pc = "done"
      BY Undisturbing DEF ProcOK
    <3> QED BY <3>1, <3>2
  <2> QED BY <2>1, <2>2, <2>3
<1>2. Knows(r, disk)
  BY <1>1, NothingKnown DEF Ended
<1> QED BY <1>1, <1>2, Undisturbing, QuietMoves

-----------------------------------------------------------------------------
(* The steps that change a file.                                           *)

\* What the other file shows when the process that moves neither was nor is
\* writing it.
OtherSeen(file) == SeenIn(disk', proc', file) = SeenIn(disk, proc, file)

\* The file is there, and empty: what is seen of it is what it will hold.
LEMMA CreateAtomic ==
    ASSUME Undisturbed, Separate(proc'), NEW p \in Proc, CreateFile(p)
    PROVE  AtomicInv' /\ Refines
<1> DEFINE q == proc[p]
<1>1. /\ q.pc = "create" /\ Typed /\ AtomicInv /\ Separate(proc) /\ FilesOK(disk) /\ FilesWhole(disk)
      /\ ProcOK(q) /\ Knows(q, disk)
  BY Undisturbing DEF CreateFile
<1>2. CASE ~disk.profile
  <2>1. Goes(p, "failed") /\ disk' = disk /\ proc[p].pc # "write"
    BY <1>1, <1>2 DEF CreateFile
  <2> QED BY <2>1, GoesQuiet DEF Ended
<1>3. CASE disk.profile
  <2> DEFINE r == [q EXCEPT !.pc = "write"]
  <2>1. proc' = [proc EXCEPT ![p] = r] /\ disk' = [disk EXCEPT ![q.file] = Created]
    BY <1>3 DEF CreateFile, Goes
  <2>2. /\ r.pc = "write" /\ r.file = q.file /\ r.content = q.content /\ r.then = q.then
        /\ r.command = q.command /\ r.keys = q.keys
    BY <1>1 DEF ProcOK
  <2> HIDE DEF r
  <2>3. DOMAIN disk = {"profile", "conf", "keys", "currencies"} /\ q.file \in {"conf", "keys"}
    BY <1>1 DEF FilesOK, ProcOK
  <2>4. /\ disk'[q.file] = Created
        /\ \A file \in {"conf", "keys"} : file # q.file => disk'[file] = disk[file]
    BY <2>1, <2>3
  <2>5. FilesWhole(disk')
    BY <1>1, <2>3, <2>4, FileValues DEF FilesWhole, Filled
  <2>6. Knows(r, disk')
    BY <1>1, <2>2, <2>3, <2>4 DEF Knows
  <2>7. AtomicInv'
    <3>1. \A file \in {"conf", "keys"} :
             disk'[file] = disk[file] \/ (Claims(proc[p], file) /\ proc[p].pc \notin Ended)
      BY <1>1, <2>4 DEF Claims, Ended
    <3> QED BY <1>1, <2>1, <2>5, <2>6, <3>1, AtomicMoves
  <2>8. proc'[p] = r
    BY <1>1, <2>1 DEF Typed
  <2>9. SeenIn(disk', proc', q.file) = q.content
    <3>1. WritersIn(proc', q.file) = {p}
      BY <2>2, <2>3, <2>8, OneWriter
    <3> QED BY <2>2, <2>4, <2>8, <3>1, SeenFile
  <2>10. \A file \in {"conf", "keys"} : file # q.file => OtherSeen(file)
    BY <1>1, <2>1, <2>2, <2>4, SeenStays DEF OtherSeen
  <2>11. WillWrite(q, disk)
    BY <1>1 DEF Knows
  <2> HIDE DEF q
  <2>12. CASE q.file = "conf"
    <3>1. Seen("keys")' = Seen("keys") /\ Seen("conf")' = q.content
      BY <2>9, <2>10, <2>12, SeenNow DEF OtherSeen
    <3>2. CASE disk.conf = Absent /\ \E n \in 0 .. MaxDraws : q.content = DefaultConf(n)
      <4>1. Seen("conf") = Absent
        BY <3>2, SeenFile, SeenNow
      <4> QED BY <2>7, <3>1, <3>2, <4>1 DEF Refines, Store!Next, Store!ChangesConf
    <3>3. CASE Filled(disk, "conf")
      <4>1. disk.conf = Holds(disk.conf.content) /\ disk.conf.content \in SoundConf
        BY <1>1, <3>3, FileValues DEF Filled, FilesOK
      <4>2. Seen("conf") = disk.conf.content /\ Seen("conf") \notin {Absent, Created}
        BY <4>1, SeenFile, SeenNow, ContentsThere
      <4>3. \/ q.content = upgrade(Seen("conf"))
            \/ \E c \in CommandsOf(WritesConf) : q.content = NewConf(Seen("conf"), c)
        BY <2>11, <2>12, <3>3, <4>2, FileValues DEF WillWrite, Filled
      <4> QED BY <2>7, <3>1, <4>2, <4>3 DEF Refines, Store!Next, Store!ChangesConf
    <3> QED BY <2>11, <2>12, <3>2, <3>3 DEF WillWrite
  <2>13. CASE q.file = "keys"
    <3>1. Seen("conf")' = Seen("conf") /\ Seen("keys")' = q.content
      BY <2>9, <2>10, <2>13, SeenNow DEF OtherSeen
    <3>2. CASE disk.keys = Absent /\ \E n \in 0 .. MaxDraws : q.content = FirstKeys(n)
      <4>1. Seen("keys") = Absent
        BY <3>2, SeenFile, SeenNow
      <4> QED BY <2>7, <3>1, <3>2, <4>1 DEF Refines, Store!Next, Store!ChangesKeys
    <3>3. CASE /\ Filled(disk, "keys") /\ q.command \in CommandsOf(WritesKeys)
               /\ \E n \in 0 .. MaxDraws : q.content = NewKeys(disk.keys.content, q.command, n)
      <4>1. disk.keys = Holds(disk.keys.content) /\ IsKeys(disk.keys.content)
        BY <1>1, <3>3, FileValues DEF Filled, FilesWhole
      <4>2. Seen("keys") = disk.keys.content /\ Seen("keys") \notin {Absent, Created}
        BY <4>1, SeenFile, SeenNow, ContentsThere
      <4> QED BY <2>7, <3>1, <3>3, <4>2 DEF Refines, Store!Next, Store!ChangesKeys
    <3> QED BY <2>11, <2>13, <3>2, <3>3 DEF WillWrite
  <2> QED BY <2>3, <2>12, <2>13 DEF q
<1> QED BY <1>2, <1>3

\* The file holds what was seen of it.
LEMMA WriteAtomic == ASSUME Undisturbed, NEW p \in Proc, WriteFile(p) PROVE AtomicInv' /\ Refines
<1> DEFINE q == proc[p]
           r == [q EXCEPT !.pc = q.then]
<1>1. /\ q.pc = "write" /\ Typed /\ AtomicInv /\ Separate(proc) /\ FilesOK(disk) /\ FilesWhole(disk)
      /\ ProcOK(q) /\ Knows(q, disk)
  BY Undisturbing DEF WriteFile
<1>2. /\ disk[q.file] = Created /\ Created # Absent
      /\ DOMAIN disk = {"profile", "conf", "keys", "currencies"} /\ q.file \in {"conf", "keys"}
  BY <1>1, FileValues DEF Knows, FilesOK, ProcOK
<1>3. proc' = [proc EXCEPT ![p] = r] /\ disk' = [disk EXCEPT ![q.file] = Holds(q.content)]
  BY <1>2 DEF WriteFile, Goes
<1>4. /\ r.pc = q.then /\ r.file = q.file /\ r.content = q.content /\ r.then = q.then
      /\ r.command = q.command /\ r.keys = q.keys /\ r.conf = q.conf
  BY <1>1 DEF ProcOK
<1> HIDE DEF r
<1>5. /\ disk'[q.file] = Holds(q.content)
      /\ \A file \in {"conf", "keys"} : file # q.file => disk'[file] = disk[file]
  BY <1>2, <1>3
<1>6. /\ \/ q.file = "conf" /\ q.then \in {"find currency", "done"}
         \/ q.file = "keys" /\ q.then \in {"read conf", "done"} /\ q.content = q.keys /\ IsKeys(q.keys)
      /\ q.command.op \in WritesKeys /\ q.file = "conf" => disk.keys = Holds(q.keys)
      /\ q.file = "conf" => q.content = q.conf
  BY <1>1 DEF Knows, ProcOK
<1>7. FilesWhole(disk')
  <2>1. \A file \in {"conf", "keys"} :
           disk'[file] \in {Absent, Created, Mixed} \/ disk'[file] = Holds(disk'[file].content)
    BY <1>1, <1>2, <1>5, FileValues DEF FilesWhole, Filled
  <2>2. disk'.keys.file = "whole" => IsKeys(disk'.keys.content)
    <3>1. CASE q.file = "keys"
      BY <1>5, <1>6, <3>1, FileValues
    <3>2. CASE q.file = "conf"
      <4>1. disk'.keys = disk.keys
        BY <1>5, <3>2
      <4> QED BY <1>1, <4>1 DEF FilesWhole
    <3> QED BY <1>2, <3>1, <3>2
  <2> QED BY <2>1, <2>2 DEF FilesWhole, Filled
<1>8. Knows(r, disk')
  BY <1>4, <1>5, <1>6 DEF Knows
<1>9. AtomicInv'
  <2>1. \A file \in {"conf", "keys"} :
           disk'[file] = disk[file] \/ (Claims(proc[p], file) /\ proc[p].pc \notin Ended)
    BY <1>1, <1>5 DEF Claims, Ended
  <2> QED BY <1>1, <1>3, <1>7, <1>8, <2>1, AtomicMoves
<1>10. SeenIn(disk', proc', q.file) = q.content
  BY <1>5, SeenFile
<1>11. SeenIn(disk, proc, q.file) = q.content
  <2>1. WritersIn(proc, q.file) = {p}
    BY <1>1, <1>2, OneWriter
  <2> QED BY <1>2, <2>1, SeenFile
<1>12. \A file \in {"conf", "keys"} : file # q.file => OtherSeen(file)
  BY <1>1, <1>3, <1>4, <1>5, SeenStays DEF OtherSeen
<1>13. OtherSeen("conf") /\ OtherSeen("keys")
  BY <1>10, <1>11, <1>12 DEF OtherSeen
<1> QED BY <1>9, <1>13, SeenNow DEF Refines, OtherSeen

\* A process killed while it writes loses the file.
LEMMA KillAtomic == ASSUME Undisturbed, NEW p \in Proc, Kill(p) PROVE AtomicInv' /\ Refines
<1> DEFINE q == proc[p]
           r == [q EXCEPT !.pc = "killed"]
<1>1. /\ q.pc \notin Ended /\ Typed /\ AtomicInv /\ Separate(proc) /\ FilesOK(disk) /\ FilesWhole(disk)
      /\ ProcOK(q) /\ Knows(q, disk) /\ disk' = disk /\ Goes(p, "killed")
  BY Undisturbing DEF Kill
<1>2. CASE q.pc # "write"
  BY <1>1, <1>2, GoesQuiet DEF Ended
<1>3. CASE q.pc = "write"
  <2>1. proc' = [proc EXCEPT ![p] = r]
    BY <1>1 DEF Goes
  <2>2. r.pc = "killed"
    BY <1>1 DEF ProcOK
  <2> HIDE DEF r
  <2>3. disk[q.file] = Created /\ q.file \in {"conf", "keys"}
    BY <1>1, <1>3 DEF Knows, ProcOK
  <2>4. FilesWhole(disk') /\ Knows(r, disk') /\ \A file \in {"conf", "keys"} : disk'[file] = disk[file]
    BY <1>1, <2>2, NothingKnown DEF Ended
  <2>5. AtomicInv'
    BY <1>1, <2>1, <2>4, AtomicMoves
  <2>6. SeenIn(disk', proc', q.file) = Created
    <3>1. WritersIn(proc, q.file) = {p}
      BY <1>1, <1>3, <2>3, OneWriter
    <3>2. proc'[p] = r /\ \A o \in Proc : o # p => proc'[o] = proc[o]
      BY <1>1, <2>1 DEF Typed
    <3>3. WritersIn(proc', q.file) = {}
      BY <2>2, <3>1, <3>2 DEF WritersIn
    <3> QED BY <1>1, <2>3, <3>3, SeenFile
  <2>7. \A file \in {"conf", "keys"} : file # q.file => OtherSeen(file)
    BY <1>1, <2>1, <2>2, <2>4, SeenStays DEF OtherSeen
  <2>8. Store!Loses
    BY <2>3, <2>6, <2>7, SeenNow DEF Store!Loses, OtherSeen
  <2> QED BY <2>5, <2>8 DEF Refines, Store!Next
<1> QED BY <1>2, <1>3

\* A reset is one step.
LEMMA ResetAtomic == ASSUME Undisturbed, NEW p \in Proc, ExecuteReset(p) PROVE AtomicInv' /\ Refines
<1> DEFINE q == proc[p]
<1>1. /\ q.pc = "execute" /\ Typed /\ AtomicInv /\ Separate(proc) /\ FilesOK(disk) /\ FilesWhole(disk)
      /\ ProcOK(q) /\ DOMAIN disk = {"profile", "conf", "keys", "currencies"}
  BY Undisturbing DEF ExecuteReset, Executes, FilesOK
<1>2. PICK pc : Goes(p, pc) /\ pc \in {"done", "failed"}
  BY DEF ExecuteReset
<1> DEFINE r == [q EXCEPT !.pc = pc]
<1>3. proc' = [proc EXCEPT ![p] = r]
  BY <1>2 DEF Goes
<1>4. r.pc \in {"done", "failed"}
  BY <1>1, <1>2 DEF ProcOK
<1>5. \A d : Knows(r, d)
  BY <1>4, NothingKnown DEF Ended
<1> HIDE DEF r
<1>6. CASE q.command.op = "reset data"
  <2>1. disk'.conf = disk.conf /\ disk'.keys = disk.keys
    BY <1>1, <1>6 DEF ExecuteReset
  <2> QED BY <1>1, <1>2, <2>1, GoesQuiet DEF Ended
<1>7. CASE q.command.op = "reset conf"
  <2>1. disk'.conf = Absent /\ disk'.keys = disk.keys
    BY <1>1, <1>7 DEF ExecuteReset
  <2>2. FilesWhole(disk')
    BY <1>1, <2>1, FileValues DEF FilesWhole, Filled
  <2>3. \A file \in {"conf", "keys"} :
           disk'[file] = disk[file] \/ (Claims(proc[p], file) /\ proc[p].pc \notin Ended)
    BY <1>1, <1>7, <2>1 DEF Claims, Ended
  <2>4. AtomicInv'
    BY <1>1, <1>3, <1>5, <2>2, <2>3, AtomicMoves
  <2>5. SeenIn(disk', proc', "conf") = Absent
    BY <2>1, SeenFile
  <2>6. SeenIn(disk', proc', "keys") = SeenIn(disk, proc, "keys")
    BY <1>1, <1>3, <1>4, <2>1, SeenStays
  <2> QED BY <2>4, <2>5, <2>6, SeenNow DEF Refines, Store!Next, Store!Resets
<1>8. CASE q.command.op = "reset all"
  <2>1. disk'.conf = Absent /\ disk'.keys = Absent
    <3>1. disk' = [profile |-> FALSE, conf |-> Absent, keys |-> Absent, currencies |-> {}]
      BY <1>8 DEF ExecuteReset
    <3> QED BY <3>1
  <2>2. FilesWhole(disk')
    BY <2>1, FileValues DEF FilesWhole, Filled
  <2>3. \A file \in {"conf", "keys"} :
           disk'[file] = disk[file] \/ (Claims(proc[p], file) /\ proc[p].pc \notin Ended)
    BY <1>1, <1>8, <2>1 DEF Claims, Ended
  <2>4. AtomicInv'
    BY <1>1, <1>3, <1>5, <2>2, <2>3, AtomicMoves
  <2>5. SeenIn(disk', proc', "conf") = Absent /\ SeenIn(disk', proc', "keys") = Absent
    BY <2>1, SeenFile
  <2> QED BY <2>4, <2>5, SeenNow DEF Refines, Store!Next, Store!Resets
<1> QED BY <1>6, <1>7, <1>8 DEF ExecuteReset, Executes

-----------------------------------------------------------------------------
(* The theorem.                                                            *)

\* No process runs yet, and the files are as an earlier run left them.
LEMMA AtomicInit == ASSUME Init PROVE AtomicInv
<1>1. user \in Scenarios /\ disk = user.disk /\ \A p \in Proc : proc[p].pc = "off"
  BY DEF Init
<1>2. FilesWhole(disk)
  BY <1>1, ScenariosAssumption DEF FilesWhole, Filled, IsKeys
<1>3. \A p \in Proc : Knows(proc[p], disk)
  BY <1>1, NothingKnown DEF Ended
<1> QED BY <1>2, <1>3 DEF AtomicInv

\* Every step is a step of the store, or none.
LEMMA StepAtomic ==
    ASSUME Undisturbed, SeparateFiles', [Next]_vars
    PROVE  AtomicInv' /\ Refines
<1>1. CASE UNCHANGED vars
  <2>1. disk' = disk /\ proc' = proc
    BY <1>1 DEF vars
  <2>2. AtomicInv'
    BY <2>1, Undisturbing DEF Undisturbed, AtomicInv
  <2> QED BY <2>1, <2>2, SeenNow DEF Refines
<1>2. ASSUME NEW p \in Proc, Launch(p) \/ Load(p) \/ Write(p) \/ Execute(p) \/ Stop(p) \/ Kill(p)
      PROVE  AtomicInv' /\ Refines
  <2>1. CASE Launch(p)
    BY <2>1, LaunchAtomic
  <2>2. CASE Load(p)
    BY <2>2, DirectoriesAtomic, ReadKeysAtomic, ReadConfAtomic DEF Load
  <2>3. CASE Write(p)
    <3>1. Separate(proc')
      BY DEF SeparateFiles, Separate
    <3> QED BY <2>3, <3>1, CreateAtomic, WriteAtomic DEF Write
  <2>4. CASE Execute(p)
    BY <2>4, ExecuteConfAtomic, ExecuteKeysAtomic, ShowsAtomic, ResetAtomic DEF Execute
  <2>5. CASE Stop(p)
    BY <2>5, ShowsAtomic
  <2>6. CASE Kill(p)
    BY <2>6, KillAtomic
  <2> QED BY <1>2, <2>1, <2>2, <2>3, <2>4, <2>5, <2>6
<1> QED BY <1>1, <1>2 DEF Next

\* The commands change the files of a profile as if each were one step on what
\* the last one left, and a kill does no worse than to lose the file that was
\* being written, as long as no two processes that run claim the same file.
THEOREM CommandsAlwaysAtomic ==
    Spec /\ [](SeparateFiles /\ drawn \in 0 .. MaxDraws) => CommandsAreAtomic
<1>1. Init => AtomicInv
  BY AtomicInit
<1>2. AtomicInv /\ Undisturbed /\ SeparateFiles' /\ [Next]_vars => AtomicInv'
  BY StepAtomic
<1>3. Undisturbed /\ SeparateFiles' /\ [Next]_vars => [Store!Next]_<<Seen("conf"), Seen("keys")>>
  BY StepAtomic DEF Refines
<1>4. IInv /\ AtomicInv /\ SeparateFiles /\ drawn \in 0 .. MaxDraws => Undisturbed
  BY DEF Undisturbed
<1>5. Init => IInv
  BY InitHolds
<1>6. IInv /\ [Next]_vars => IInv'
  BY StepKeeps
<1> QED BY <1>1, <1>2, <1>3, <1>4, <1>5, <1>6, PTL DEF Spec, CommandsAreAtomic, Store!Spec, Store!Init

\* Processes that run one at a time never claim the same file: commands of a node
\* used by one command after another are atomic.
COROLLARY AloneAlwaysAtomic ==
    Spec /\ [](user.alone /\ drawn \in 0 .. MaxDraws) => CommandsAreAtomic
<1>1. Init => IInv
  BY InitHolds
<1>2. IInv /\ [Next]_vars => IInv'
  BY StepKeeps
<1>3. IInv /\ user.alone => SeparateFiles
  BY DEF IInv, OneAtATime, SeparateFiles, Separate
<1> QED BY <1>1, <1>2, <1>3, CommandsAlwaysAtomic, PTL DEF Spec
=============================================================================
