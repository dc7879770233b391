---------------------------- MODULE MCInstaller ----------------------------
(***************************************************************************)
(* Two jobs of one device, with two and with four instances, over two       *)
(* starts of the program.                                                  *)
(***************************************************************************)
EXTENDS Installer

MCWishes == [model : Models, v2 : BOOLEAN]
=============================================================================
