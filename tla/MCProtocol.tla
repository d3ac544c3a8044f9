----------------------------- MODULE MCProtocol -----------------------------
(* Two channels, three reply lists, a 2-bit token counter so that it wraps  *)
(* after four commands, and five commands in all.                           *)
EXTENDS Protocol

MCChannels == {1, 2}
====
