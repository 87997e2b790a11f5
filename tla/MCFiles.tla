------------------------------ MODULE MCFiles ------------------------------
(* A console, a disk, a FAT file in the root directory, two processes. *)
EXTENDS Files

CONSTANTS n3, h1

MCTty == {<<"dev", "stdin">>}
MCBlock == {<<"dev", "hda1">>}
MCContainer == <<"dev", "hda1">>
MCStdPath == <<<<"dev", "stdin">>>>
MCStdNode == <<n3>>
MCStdHandle == <<h1>>
MCFatDir == {}
MCFatFile == {<<"init">>}
MCPath == {<<>>, <<"dev">>} \cup MCTty \cup MCBlock \cup MCFatDir \cup MCFatFile
=============================================================================
