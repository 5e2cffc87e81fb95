------------------------------ MODULE MCServe -------------------------------
(* Serve with requests that depart from a good one in up to two places.    *)
EXTENDS Serve

Good(method) ==
  [request_id |-> "string", id |-> "absent", schema |-> "ok", version |-> "ok",
   method |-> method, params |-> "object", text |-> "string", array |-> "yes",
   texts |-> 1]

Departed(objects) ==
  UNION {{[o EXCEPT !.request_id = "absent"], [o EXCEPT !.request_id = "bad"],
          [o EXCEPT !.id = "string"], [o EXCEPT !.id = "bad"],
          [o EXCEPT !.schema = "bad"], [o EXCEPT !.version = "bad"],
          [o EXCEPT !.method = "bad"], [o EXCEPT !.params = "absent"],
          [o EXCEPT !.params = "bad"], [o EXCEPT !.text = "bad"],
          [o EXCEPT !.array = "no"], [o EXCEPT !.texts = 0],
          [o EXCEPT !.texts = MaxBatchItems + 1]} : o \in objects}

GoodObjects == {Good(method) : method \in Methods}
MCObjects == GoodObjects \cup Departed(GoodObjects) \cup Departed(Departed(GoodObjects))
=============================================================================
