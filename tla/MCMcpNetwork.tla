--------------------------- MODULE MCMcpNetwork ---------------------------
EXTENDS McpNetwork

\* Both users, both PPMs, a forwarded packet, an echo, an unknown command.
MCShapes ==
    {[user |-> "GS", dest |-> "LPPM", echo |-> "FTDI", id |-> "ppm_set_time"],
     [user |-> "GS", dest |-> "UPPM", echo |-> None, id |-> "ppm_set_time"],
     [user |-> "GS", dest |-> "EPS", echo |-> None, id |-> "unknown"],
     [user |-> "FTDI", dest |-> "UPPM", echo |-> "GS", id |-> "ppm_get_time"]}
============================================================================
