SPECIFICATION FairSpec
CONSTANTS
  Requests = {r1}
  Statuses = {200, 401, 502}
  Capacity = 1
  MaxEvents = 1
PROPERTY
  SendersAreTimed
