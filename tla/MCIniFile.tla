------------------------------ MODULE MCIniFile ------------------------------
(* One named section beside the default one, two keys, a comment.             *)
EXTENDS IniFile

MCName == {"section"}
MCKey == {"k1", "k2"}
MCValue == {"v1", "v2"}
MCText == {"#text"}
==============================================================================
