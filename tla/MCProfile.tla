----------------------------- MODULE MCProfile -----------------------------
(* Two processes and the modules of durs-server, with one that is optional  *)
(* (the skeleton).  Commands one after another on a new profile, on one of   *)
(* the first version, and on one in use; two processes at the same time that *)
(* write different files; and, for the runs about what goes wrong then, the  *)
(* same file.                                                                *)
EXTENDS Profile

MCProc == {"a", "b"}
MCCurrency == {"g1", "g1-test"}
MCNetwork == {"ws2p1", "ws2p"}
MCPriority == [ws2p1 |-> "Essential", ws2p |-> "Essential", tui |-> "Recommended", skeleton |-> "Optional"]

Switch(op, m) == [op |-> op, module |-> m]
Prefer(do, keys, readable) == [op |-> "prefered", do |-> do, keys |-> keys, readable |-> readable]
Do(op) == [op |-> op]
List(filters) == [op |-> "modules", filters |-> filters]
Key(op, key) == [op |-> op, key |-> key]
Clear(network, member) == [op |-> "keys clear", network |-> network, member |-> member]
Wizard(network, member, key) == [op |-> "keys wizard", network |-> network, member |-> member, key |-> key]
SyncTo(currency) == [op |-> "sync", currency |-> currency]

NoProfile == [profile |-> FALSE, conf |-> Absent, keys |-> Absent, currencies |-> {}]
InUse == [profile |-> TRUE, conf |-> Holds([DefaultConf(0) EXCEPT !.disabled = {"tui"}]),
          keys |-> Holds(FirstKeys(0)), currencies |-> {"g1"}]
OfVersion1 == [InUse EXCEPT
    !.conf = Holds([DefaultConf(0) EXCEPT !.version = 1, !.enabled = {"skeleton"},
                    !.modules = [m \in {"ws2p1"} |-> [outcoming_quota |-> "5", prefered_pubkeys |-> {"A"}]]])]

User(files, alone, kills, asked, one, two) ==
    [disk |-> files, alone |-> alone, kills |-> kills, asked |-> asked, commands |-> [a |-> one, b |-> two]]

MCScenarios == {
    User(NoProfile, TRUE, 1, NothingAsked,
         <<Switch("disable", "tui"), Prefer("add", {"A", "B"}, TRUE), Switch("enable", "skeleton"), Do("start")>>,
         <<Do("start"), Prefer("rem", {"A"}, TRUE), List({"enabled"})>>),
    User(NoProfile, TRUE, 0, NothingAsked,
         <<Switch("disable", "ws2p1"), Do("start"), Do("reset conf"), Prefer("add-file", {"B"}, TRUE), Do("start")>>,
         <<Prefer("add-file", {"A"}, FALSE), Do("reset all"), Prefer("clear", {}, TRUE), Do("reset data")>>),
    User(OfVersion1, TRUE, 0, [switch |-> [m \in Module |-> IF m = "skeleton" THEN "enabled" ELSE None], prefered |-> {"A"}],
         <<Prefer("show", {}, TRUE), Switch("disable", "skeleton"), Do("start")>>,
         <<SyncTo("g1-test"), Switch("enable", "skeleton"), List({"disabled", "network", "secret"})>>),
    User(InUse, FALSE, 1, [NothingAsked EXCEPT !.switch["tui"] = "disabled"],
         <<Switch("enable", "tui"), Prefer("add", {"A"}, TRUE), Switch("disable", "tui"), Do("show")>>,
         <<Key("keys modify member", 100), Do("start"), Clear(TRUE, FALSE), Wizard("n", "d", 101)>>),
    User(InUse, FALSE, 1, [NothingAsked EXCEPT !.switch["tui"] = "disabled"],
         <<Do("start"), SyncTo("g1-test"), Do("start")>>,
         <<Wizard("y", "y", 101), Key("keys modify network", 100), List({})>>)}

Given(s) == {s[i] : i \in DOMAIN s}
MCCommands == UNION {Given(s.commands.a) \cup Given(s.commands.b) : s \in MCScenarios}

\* Two first runs at a time; two writers of a file, one of which changes nothing;
\* resets of what a killed process left, and of another currency.
MCFirstRuns == {User(NoProfile, FALSE, 0, NothingAsked, <<Do("start")>>, <<Do("start")>>)}
MCLostUpdate == {User(InUse, FALSE, 0, NothingAsked, <<Switch("enable", "tui")>>, <<Prefer("show", {}, TRUE)>>)}
MCResets == {
    User(InUse, TRUE, 1, [NothingAsked EXCEPT !.switch["tui"] = "disabled"],
         <<Switch("enable", "tui"), Do("reset all")>>, <<>>),
    User(InUse, TRUE, 0, [NothingAsked EXCEPT !.switch["tui"] = "disabled"], <<SyncTo("g1-test"), Do("reset data")>>, <<>>)}
MCNotSo == MCFirstRuns \cup MCLostUpdate \cup MCResets
=============================================================================
