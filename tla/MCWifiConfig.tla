---------------------------- MODULE MCWifiConfig ----------------------------
(* Besides the default: another network, an open one, the default with     *)
(* another password, a name that starts like the default, and one that is  *)
(* too long.                                                               *)
EXTENDS WifiConfig

MCDefault == [ssid |-> <<"a">>, passwd |-> <<"x">>]
Other == [ssid |-> <<"b", "b">>, passwd |-> <<"y", "x">>]
Open == [ssid |-> <<"b">>, passwd |-> << >>]
Longer == [ssid |-> <<"a", "b">>, passwd |-> <<"x">>]
Rekeyed == [ssid |-> <<"a">>, passwd |-> <<"y">>]
Refused == [ssid |-> <<"a", "b", "c">>, passwd |-> <<"x">>]
MCRequests == {MCDefault, Other, Open, Longer, Rekeyed, Refused}
MCNetworks == {MCDefault, Other, Open, Longer, Rekeyed}
=============================================================================
