----------------------------- MODULE MC_SoftUart ----------------------------
(* Formats with one and two stop bits and with parity; buffers of one, two *)
(* and three characters; one configuration that is refused.                *)
EXTENDS SoftUart

Cfg(data, stop, parity, size, ms) ==
  [num_data_bits |-> data, num_stop_bits |-> stop, parity |-> parity,
   rx_buf_size |-> size, rx_timeout_ms |-> ms]

MCConfigs ==
  {Cfg(1, 1, 0, 1, 200), Cfg(1, 1, 1, 3, 100), Cfg(2, 2, 0, 2, 100), Cfg(0, 1, 0, 2, 100)}
=============================================================================
