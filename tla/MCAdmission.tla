----------------------------- MODULE MCAdmission -----------------------------
(* The routes: a small table with a good path, one that is no pattern and one  *)
(* without its slash, three ids, and files with a repeated path, an unknown    *)
(* key and a missing secret.                                                   *)
(*                                                                             *)
(* The verifiers: one pinned url and one that is not; a good certificate, its  *)
(* successor, one without a trusted chain and one whose key is not RSA.        *)
(*                                                                             *)
(* The routes decide which verifiers a gateway is built with, and nothing      *)
(* after that: the two share no state, and each is followed while the other    *)
(* has not begun, which leaves out only interleavings of steps that cannot see *)
(* each other.                                                                 *)
EXTENDS Routes, Verifiers

MCInit == Init /\ VerifiersInit

MCNext ==
  \/ VerifiersInit /\ Next /\ UNCHANGED verifiersVars
  \/ Init /\ VerifiersNext /\ UNCHANGED vars

MCSpec == MCInit /\ [][MCNext]_<<vars, verifiersVars>>

StripeItem(path) ==
  [path |-> path, provider |-> "stripe", upstream |-> "url", replay_window |-> "good", secret_env |-> "NAME"]
PayPalItem(path) ==
  [path |-> path, provider |-> "paypal", upstream |-> "url", replay_window |-> "bad", webhook_id |-> "ID"]
Misspelt(path) ==
  [path |-> path, provider |-> "stripe", upstream |-> "url", secretenv |-> "NAME"]
NoSecret(path) ==
  [path |-> path, provider |-> "github", upstream |-> "url"]

MCFiles ==
  {<<StripeItem("/a"), PayPalItem("b")>>, <<PayPalItem("/a"), StripeItem("/a")>>,
   <<StripeItem("/{c:d}"), Misspelt("/a")>>, <<NoSecret("/{c:d}")>>}

MCUrls == {"paypal.example", "elsewhere.example"}
MCPinned == {"paypal.example"}
MCCerts == {"old", "new", "selfsigned", "ec"}
MCChained == {"old", "new", "ec"}
MCRsa == {"old", "new", "selfsigned"}
=============================================================================
