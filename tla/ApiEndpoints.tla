----------------------------- MODULE ApiEndpoints -----------------------------
(***************************************************************************)
(* detect_api_endpoints (query/api_endpoints.py): the endpoints that the   *)
(* decorators and the add_api_route calls of a module register.  Paths are *)
(* left out, methods are in lower case; a function that is not known is    *)
(* NoName.                                                                 *)
(***************************************************************************)
EXTENDS Names

HttpMethods == {"get", "post", "put", "patch", "delete", "options", "head"}

Endpoint(method, function, module, detection) ==
    [method |-> method, function |-> function, file |-> module.path, detection |-> detection]

\* Calls of an attribute of some object: `router.get(...)`.
IsCallOf(site, names) == site.is = "call" /\ Len(site.fn) >= 2 /\ Last(site.fn) \in names

\* _methods_from_api_route
MethodsOf(site) == IF site.methods = {} THEN {"get"} ELSE site.methods

\* _endpoints_for
EndpointsFor(function, module) ==
    UNION {{Endpoint(Last(d.fn), function.qname, module, "method_decorator") :
               d \in {x \in ToSet(function.decorators) : IsCallOf(x, HttpMethods)}},
           UNION {{Endpoint(method, function.qname, module, "api_route_decorator") : method \in MethodsOf(d)} :
               d \in {x \in ToSet(function.decorators) : IsCallOf(x, {"api_route"})}}}

\* Mutant: routes added inside functions are not seen.
ModuleCallSites(module) == module.calls

\* _all_call_sites
AllCallSites(module) ==
    module.calls \union UNION {f.calls : f \in ToSet(module.functions)}

\* _local_function_names: the last function of the name, or else the first method.
LocalFunction(name, module) ==
    LET named == Only(module.functions, {f \in ToSet(module.functions) : f.name = name})
        functions == Only(named, {f \in ToSet(named) : f.owner = NoName})
    IN  IF functions # <<>> THEN Last(functions).qname
        ELSE IF named # <<>> THEN Head(named).qname
        ELSE NoName

\* _add_api_route_endpoints: the handler is the second argument, if that is a plain name.
AddApiRouteEndpoints(module) ==
    UNION {{Endpoint(method, IF Len(site.args) > 1 THEN LocalFunction(site.args[2], module) ELSE NoName,
                     module, "add_api_route_call") : method \in MethodsOf(site)} :
              site \in {s \in AllCallSites(module) : IsCallOf(s, {"add_api_route"}) /\ s.args # <<>>}}

detect_api_endpoints(modules) ==
    UNION {AddApiRouteEndpoints(m) \union UNION {EndpointsFor(f, m) : f \in ToSet(m.functions)} :
              m \in ToSet(modules)}
=============================================================================
