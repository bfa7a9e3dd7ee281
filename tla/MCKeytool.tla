----------------------------- MODULE MCKeytool ------------------------------
(***************************************************************************)
(* A key tool with one place for an authority's keys that may lose its     *)
(* secret key to a second one, and one place for the keys of a server.      *)
(***************************************************************************)
EXTENDS Keytool

Ca == {<<"ca_public", "ca_secret">>}
Noise == {<<"server_public", "server_secret">>}

=============================================================================
