---------------------------- MODULE MCWorkspace ----------------------------
EXTENDS Workspace

\* The tabs are spread over the users.
MCTabUser == CHOOSE user \in [Tabs -> Users] : \A u \in Users : \E t \in Tabs : user[t] = u
=============================================================================
