-------------------------- MODULE MCSettingsBridge --------------------------
(* A small instance of SettingsBridge for TLC. *)
EXTENDS SettingsBridge
=============================================================================
