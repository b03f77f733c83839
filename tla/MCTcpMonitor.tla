---- MODULE MCTcpMonitor ----
EXTENDS TcpMonitor
====
