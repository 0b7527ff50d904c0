---------------------- MODULE MCHeartbeatPublishers ----------------------
(* Small instances of the heartbeat publishers.  media-service runs the same *)
(* publisher as book-service.                                                *)
EXTENDS HeartbeatPublishers
===============================================================================
