----------------------------- MODULE MCMailRelay -----------------------------
EXTENDS MailRelay, TLC

\* Model values: the names.
CONSTANTS user, router, a1, a2

\* Each agent is registered under the name of its project.
MCProjectName == [a \in Agents |-> a]
=============================================================================
