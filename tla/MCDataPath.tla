----------------------------- MODULE MCDataPath -----------------------------
(***************************************************************************)
(* Small instances of the outputs for TLC: the sizes of the headers are    *)
(* the code's, the batch holds three small records, and the options and    *)
(* packets are the ones that take different branches.                      *)
(***************************************************************************)
EXTENDS DataPath

Setup(capturer, stats, kind, slice, rate, every) ==
    [capturer |-> capturer, stats |-> stats, kind |-> kind, slice |-> slice,
     rate |-> rate, every |-> every]

MCSetups ==
    {Setup("libpcap", FALSE, "zmq", 16, 0, 3), Setup("libpcap", FALSE, "zmq", 0, 240, 0),
     Setup("libpcap", TRUE, "gre", 16, 0, 0), Setup("pcap_file", FALSE, "zmq", 16, 240, 3),
     Setup("pcap_file", FALSE, "gre", 0, 240, 0), Setup("pcap_file", FALSE, "file", 16, 240, 0),
     Setup("pcap_file", FALSE, "null", 0, 0, 0),
     Setup("libpcap", FALSE, "rotating_file", 16, 240, 0)}

MCPackets ==
    {[caplen |-> 12, tags |-> 0, dir |-> "out"], [caplen |-> 16, tags |-> 1, dir |-> "out"],
     [caplen |-> 30, tags |-> 1, dir |-> "out"], [caplen |-> 14, tags |-> 0, dir |-> "unknown"]}
=============================================================================
