------------------------------ MODULE MCWhatsApp ------------------------------
(***************************************************************************)
(* WhatsApp messages on small instances.                                   *)
(***************************************************************************)
EXTENDS WhatsAppProperties
=============================================================================
