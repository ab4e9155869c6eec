------------------------------- MODULE MCOvsdb -------------------------------
(* Values of the constants of OvsdbTables for TLC.                          *)
EXTENDS OvsdbTables, TLC

CONSTANTS c1, c2, h1, u1, u2, u3

Do(op, t) == [op |-> op, table |-> t, name |-> "", row |-> EmptyMap,
              where |-> {}, mutations |-> <<>>]

Up(n) == "up" :> <<"num", n>>

\* A port and the switch it belongs to.
AddPort == <<[Do("insert", "Port") EXCEPT !.name = "p", !.row = Up(0)],
             [Do("insert", "Switch") EXCEPT !.row =
                 "ports" :> <<"set", <<<<"named-uuid", "p">>>>>>]>>

DropUp == <<[Do("delete", "Port") EXCEPT !.where =
                {<<"up", "==", <<"num", 1>>>>}]>>

ClearSwitches == <<Do("select", "Switch"), Do("delete", "Switch")>>

\* The update is undone, because there is no such table.
UpAndFail == <<[Do("update", "Port") EXCEPT !.row = Up(1)],
               Do("insert", "Nowhere")>>

\* Fails in the second mutation of a row, after the first has been applied.
MutateAndFail == <<[Do("mutate", "Switch") EXCEPT !.mutations =
                       <<<<"n", "insert", <<"num", 1>>>>,
                         <<"n", "/=", <<"num", 0>>>>>>]>>

MutateTwice == <<[Do("mutate", "Switch") EXCEPT
                    !.where = {<<"n", "!=", <<"set", <<<<"num", 1>>>>>>>>},
                    !.mutations = <<<<"n", "delete", <<"num", 2>>>>,
                                    <<"n", "insert", <<"num", 1>>>>>>]>>

Transactions == {AddPort, DropUp, ClearSwitches, UpAndFail, MutateAndFail,
                 MutateTwice}

WatchAll == ("Port" :> {"up"}) @@ ("Switch" :> {})
WatchNowhere == ("Port" :> {}) @@ ("Nowhere" :> {})

MonitorRequests == {WatchAll, WatchNowhere}

IdSymmetry == Permutations(Clients) \cup Permutations(Uuids)
=============================================================================
