---------------------------- MODULE MCSerialPort ----------------------------
(* Two threads of one kind of client; requests that differ in what set_attributes *)
(* handles.                                                                       *)
EXTENDS SerialPort

CONSTANTS t1, t2

MCClients == {{"set_signal"}, {"set_attributes"}, {"poll_serial", "read_serial", "discard_buffer"}}
Pollers   == {{"poll_serial"}}

Request(b, p, s, h) == [baud |-> b, parity |-> p, stop |-> s, shake |-> h]
MCRequests == { Request("B115200", "Odd", "Two", "RequestToSend"),
                Request("B9600", "Even", "One", "RequestToSendXOnXOff"),
                Request("B9600", "Mark", "OnePointFive", "None"),
                Request("B12345", "None", "One", "None") }

=============================================================================
