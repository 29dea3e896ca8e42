------------------------------ MODULE MCClient ------------------------------
(* Small instances of Client. *)
EXTENDS Client, TLC

Default == [hb |-> "default", flush |-> "default", size |-> "default", up |-> << >>,
            valid |-> TRUE]

Public == [auth |-> FALSE, tls |-> FALSE]
Guarded == [auth |-> TRUE, tls |-> TRUE]
PublicOrGuarded == {Public, Guarded}

Identifies == {[Default EXCEPT !.hb = "on", !.flush = "off", !.size = "some"],
               [Default EXCEPT !.hb = "off"],
               [Default EXCEPT !.size = "none", !.up = <<"tls", "deflate">>],
               [Default EXCEPT !.hb = "off", !.size = "none", !.valid = FALSE]}
=============================================================================
