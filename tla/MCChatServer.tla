---------------------------- MODULE MCChatServer ----------------------------
EXTENDS ChatServer

CONSTANTS c1, c2
=============================================================================
