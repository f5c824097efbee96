--------------------------- MODULE MCOmnixLifecycle ---------------------------
(***************************************************************************)
(* OmnixAccount, and with it OmnixLifecycle, for TLC.  Seven sessions'     *)
(* configurations: a plain one, one for each way omnix_account_setup can   *)
(* refuse one, and the optional parts.                                     *)
(***************************************************************************)
EXTENDS OmnixAccount

CONSTANTS user, host, pass

MCNames == {user, host, pass}

Plain == [sip_user |-> user, domain |-> host, server |-> host,
          auth_user |-> NoName, sip_password |-> pass, display_name |-> NoName,
          codecs |-> {}, stun_server |-> "none"]

MCConfigs ==
    {Plain,
     [Plain EXCEPT !.stun_server = "stun"],
     [Plain EXCEPT !.stun_server = "turn"],
     [Plain EXCEPT !.codecs = {"opus"}],
     [Plain EXCEPT !.display_name = pass],
     [Plain EXCEPT !.domain = NoName, !.sip_password = NoName, !.codecs = {"pcmu", "opus"}],
     [Plain EXCEPT !.domain = NoName, !.server = NoName]}
=============================================================================
