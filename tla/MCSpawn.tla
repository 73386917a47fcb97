------------------------------- MODULE MCSpawn -------------------------------
(* Small instances of the spawn registry *)
EXTENDS Spawn

Ask(era, mode, cwd, credential, part) ==
  [era |-> era, mode |-> mode, cwd |-> cwd, part |-> part,
   env |-> [credential |-> credential, setting |-> NoValue]]
MCGitRoot == [d \in {"a", "b"} |-> "a"]
MCDaemonEnv == [credential |-> "daemon", setting |-> NoValue]

Global(cwd, credential) == Ask("legacy", "global", cwd, credential, NoValue)
Modern(part) == Ask("modern", "global", "a", NoValue, part)
ByCwd(cwd, credential) == Ask("legacy", "cwd", cwd, credential, NoValue)
ByGit(cwd, credential) == Ask("legacy", "git", cwd, credential, NoValue)
Isolated(cwd) == Ask("legacy", "isolated", cwd, NoValue, NoValue)
Pair(x, y) == [c \in Caller |-> IF c = "c1" THEN x ELSE y]
MCAsked == {Pair(Global("a", NoValue), Global("b", "key")),
            Pair(Global("a", "key"), Global("b", "key")),
            Pair(Global("a", NoValue), Isolated("a")),
            Pair(ByCwd("a", "key"), ByCwd("b", "key")),
            Pair(ByGit("b", "key"), ByGit("a", NoValue)),
            Pair(Modern("x"), Modern("x")), Pair(Modern(NoValue), Modern(NoValue))}
MCCached == {[class |-> "shared", env |-> MCDaemonEnv, cwd |-> NoValue]}

\* Three calls of the mode that shares by directory, two of them for one
\* directory with different credentials.
MCCwdAsked == {[c \in Caller |-> CASE c = "c1" -> ByCwd("b", NoValue)
                                  [] c = "c2" -> ByCwd("a", "key")
                                  [] OTHER -> ByCwd("a", NoValue)]}
==============================================================================
