--------------------------- MODULE MCSkillInstall ---------------------------
EXTENDS SkillInstall
\* --dest with two runtimes of one layout and one of its own.
SharedAndOwn == {<<"skill", "skill", "prompt">>}
=============================================================================
