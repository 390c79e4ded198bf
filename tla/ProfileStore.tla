---------------------------- MODULE ProfileStore ----------------------------
(* What the user may rely on: the configuration and the keys of a profile    *)
(* change by whole commands, each of them on what the last one left, and a   *)
(* process killed in the middle of a command can do no worse than to lose    *)
(* the file it was about to write.                                           *)
CONSTANTS
    ConfCommands, ConfAfter(_, _), FirstConf(_), Upgraded(_),
    KeysCommands, KeysAfter(_, _, _), FirstKeys(_),
    Random, Nothing, Lost

VARIABLES conf, keys

Init == TRUE

Loses == (conf' = Lost /\ UNCHANGED keys) \/ (keys' = Lost /\ UNCHANGED conf)
Resets == conf' = Nothing /\ (keys' = Nothing \/ UNCHANGED keys)

ChangesConf ==
    /\ UNCHANGED keys
    /\ \/ conf = Nothing /\ \E r \in Random : conf' = FirstConf(r)
       \/ conf \notin {Nothing, Lost} /\ conf' = Upgraded(conf)
       \/ conf \notin {Nothing, Lost} /\ \E c \in ConfCommands : conf' = ConfAfter(conf, c)

ChangesKeys ==
    /\ UNCHANGED conf
    /\ \/ keys = Nothing /\ \E r \in Random : keys' = FirstKeys(r)
       \/ keys \notin {Nothing, Lost} /\ \E c \in KeysCommands, r \in Random : keys' = KeysAfter(keys, c, r)

Next == Loses \/ Resets \/ ChangesConf \/ ChangesKeys
Spec == Init /\ [][Next]_<<conf, keys>>
=============================================================================
